---- MODULE Spec2Model ----
(***************************************************************************)
(* The instance-group settings aggregator and enrichment pipeline of the   *)
(* HyperPod cluster creator custom resource                                *)
(* (src/eks/cloudformation/resources/hyperpod-cluster-creator).            *)
(*                                                                         *)
(* Representation.  A Python str is a sequence of lexemes (TLA+ strings):  *)
(* "sg-1,sg-2" is <<"sg-1", ",", "sg-2">>, "[{A}]" is <<"[", "{A}", "]">>, *)
(* the empty str is <<>>.  os.environ is a function whose DOMAIN is the    *)
(* set of variables that are set; a variable name is a str.  A Python dict *)
(* is a function whose DOMAIN is its key set.  A call that can raise       *)
(* returns a record with an exc field ("none" when it returns normally).   *)
(***************************************************************************)
EXTENDS Integers, Sequences, FiniteSets, TLC

VARIABLES
    environ,          \* os.environ of the Lambda process
    pc,               \* position of the running call
    call_site,        \* the function the running call was made from
    settings_prefix,  \* argument of the running combine_settings call
    combined,         \* outcome of combine_settings: [exc, value]
    isRig,            \* argument of the running enrich_instance_groups call
    groups_in,        \* the list as it was passed to enrich_instance_groups
    instance_groups,  \* the list enrich_instance_groups mutates in place
    idx,              \* number of groups the for loop has finished
    subnet_to_az_mapping, \* insertion-ordered dict: sequence of <<subnet, az>>
    describe_calls,   \* describe_subnets calls issued by the running call
    describe_failed,  \* whether such a call raised
    enrich_exc,       \* exception enrich_instance_groups ended with, or "none"
    invocations,      \* lambda_handler invocations this process has served
    request_type,     \* event['RequestType'] of the latest invocation
    cfn_sent,         \* statuses passed to cfnresponse.send in that invocation
    handler_exc,      \* what lambda_handler caught in it: [exc, raised_in]
    create_params,    \* create_params as the template was generated from it
    template_generated, \* generate_cluster_template_yaml was called in it
    s3_puts,          \* the put_object calls that succeeded in it: [Key, Body]
    s3_deletes,       \* the delete_object calls made in it, with their outcomes
    describe_answers, \* what describe_subnets answered in it, call by call
    retries,          \* retries of the grafana creator's on_create
    describe_workspace_calls, \* describe_workspace calls it has made
    waits,            \* time.sleep(WAIT_SECONDS) calls it has made
    status,           \* what the latest describe_workspace call reported
    failed_status_at, \* the first call that reported FAILED or DELETING, or 0
    grafana_exc,      \* exception on_create ended with, or "none"
    cluster_gone,     \* SageMaker no longer knows the HyperPod cluster
    cluster_calls,    \* the SageMaker calls of delete_hyperpod_cluster: [call, outcome]
    delete_result,    \* the message it returned or the exception it raised
    sagemaker_calls   \* SageMaker calls of the s3-content handler's latest invocation

vars == <<environ, pc, call_site, settings_prefix, combined, isRig, groups_in,
          instance_groups, idx, subnet_to_az_mapping, describe_calls,
          describe_failed, enrich_exc, invocations, request_type, cfn_sent,
          handler_exc, create_params, template_generated, s3_puts, s3_deletes,
          describe_answers, retries, describe_workspace_calls, waits, status,
          failed_status_at, grafana_exc, cluster_gone, cluster_calls,
          delete_result, sagemaker_calls>>

-----------------------------------------------------------------------------
(* Bounds of the model *)

\* fragments {prefix}1 .. {prefix}MaxIndex may be set in os.environ
MaxIndex == 3
\* longest instance-group list handed to enrich_instance_groups
MaxGroups == 2
\* invocations one Lambda process serves
MaxInvocations == 2

-----------------------------------------------------------------------------
(* Python strings and numbers *)

Digits == <<"0", "1", "2", "3", "4", "5", "6", "7", "8", "9">>

IsDigit(c) == \E d \in 1..10 : Digits[d] = c

DigitValue(c) == (CHOOSE d \in 1..10 : Digits[d] = c) - 1

RECURSIVE DecimalValue(_)
DecimalValue(s) ==
    IF s = <<>> THEN 0
    ELSE 10 * DecimalValue(SubSeq(s, 1, Len(s) - 1)) + DigitValue(s[Len(s)])

\* int(s) for a str s: an optional sign and decimal digits, else ValueError
PyInt(s) ==
    LET body == IF s # <<>> /\ s[1] = "-" THEN Tail(s) ELSE s
    IN  IF body # <<>> /\ \A k \in 1..Len(body) : IsDigit(body[k])
        THEN [exc |-> "none",
              value |-> IF body = s THEN DecimalValue(body)
                        ELSE 0 - DecimalValue(body)]
        ELSE [exc |-> "ValueError", value |-> 0]

\* str(n) for n >= 0
RECURSIVE PyStrOfNat(_)
PyStrOfNat(n) ==
    IF n < 10 THEN <<Digits[n + 1]>>
    ELSE PyStrOfNat(n \div 10) \o <<Digits[(n % 10) + 1]>>

\* f'{settings_prefix}{i}'
SettingKey(prefix, i) == <<prefix>> \o PyStrOfNat(i)

-----------------------------------------------------------------------------
(* json.loads on the lexemes of a fragment *)

\* the object literals that occur in fragments, and the dict each denotes
JsonObjects ==
    [ObjA |-> [InstanceGroupName |-> <<"A">>],
     ObjB |-> [InstanceGroupName |-> <<"B">>],
     ObjD |-> [InstanceGroupName |-> <<"D">>],
     ObjT |-> [InstanceGroupName |-> <<"T">>, TargetAvailabilityZoneId |-> <<"az1">>],
     ObjC |-> [InstanceGroupName |-> <<"C">>, InstanceGroupType |-> <<"Controller">>],
     ObjW |-> [InstanceGroupName |-> <<"W">>, InstanceGroupType |-> <<"Compute">>,
               InstanceType |-> <<"ml.p5.48xlarge">>],
     ObjW2 |-> [InstanceGroupName |-> <<"W2">>, InstanceGroupType |-> <<"Compute">>,
                InstanceType |-> <<"ml.g5.xlarge">>],
     ObjL |-> [InstanceGroupName |-> <<"L">>, InstanceGroupType |-> <<"Login">>],
     ObjR |-> [InstanceGroupName |-> <<"R">>],
     ObjRT |-> [InstanceGroupName |-> <<"RT">>, TargetAvailabilityZoneId |-> <<"az2">>],
     ObjTag |-> [Key |-> <<"Environment">>, Value |-> <<"Production">>]]

JsonNumbers == {"7"}

JsonWhitespace == {" "}

PyDict(d) == [type |-> "dict", d |-> d]
PyList(items) == [type |-> "list", items |-> items]
PyNumber(tok) == [type |-> "int", n |-> tok]
NoValue == [type |-> "none"]

ParseFail == [ok |-> FALSE, v |-> NoValue, next |-> 0]

RECURSIVE ParseValue(_, _), ParseElements(_, _, _)
\* the JSON value that starts at lexeme i of s, and the position after it
ParseValue(s, i) ==
    IF i > Len(s) THEN ParseFail
    ELSE IF s[i] = "[" THEN
        IF i + 1 <= Len(s) /\ s[i + 1] = "]"
        THEN [ok |-> TRUE, v |-> PyList(<<>>), next |-> i + 2]
        ELSE ParseElements(s, i + 1, <<>>)
    ELSE IF s[i] \in DOMAIN JsonObjects
        THEN [ok |-> TRUE, v |-> PyDict(JsonObjects[s[i]]), next |-> i + 1]
    ELSE IF s[i] \in JsonNumbers
        THEN [ok |-> TRUE, v |-> PyNumber(s[i]), next |-> i + 1]
    ELSE ParseFail

\* the elements of an array from lexeme i on, after those in acc
ParseElements(s, i, acc) ==
    LET r == ParseValue(s, i)
    IN  IF ~r.ok \/ r.next > Len(s) THEN ParseFail
        ELSE IF s[r.next] = ","
            THEN ParseElements(s, r.next + 1, Append(acc, r.v))
        ELSE IF s[r.next] = "]"
            THEN [ok |-> TRUE, v |-> PyList(Append(acc, r.v)), next |-> r.next + 1]
        ELSE ParseFail

StripWhitespace(s) == SelectSeq(s, LAMBDA c : c \notin JsonWhitespace)

\* json.loads(s): the value, or JSONDecodeError
json_loads(s) ==
    LET t == StripWhitespace(s)
        r == ParseValue(t, 1)
    IN  IF r.ok /\ r.next = Len(t) + 1
        THEN [exc |-> "none", value |-> r.v]
        ELSE [exc |-> "JSONDecodeError", value |-> NoValue]

-----------------------------------------------------------------------------
(* combine_settings *)

DefaultNumGroups == 20

NumGroupsKey == <<"NUMBER_OF_INSTANCE_GROUPS">>

\* int(os.environ.get('NUMBER_OF_INSTANCE_GROUPS', 20))
num_groups(env) ==
    IF NumGroupsKey \in DOMAIN env THEN PyInt(env[NumGroupsKey])
    ELSE [exc |-> "none", value |-> DefaultNumGroups]

\* os.environ[key]
environ_getitem(env, key) ==
    IF key \in DOMAIN env THEN [exc |-> "none", value |-> env[key]]
    ELSE [exc |-> "KeyError", value |-> <<>>]

\* the presence test dropped: an unset variable is read
FragmentGuardNoPresenceTest(env, key) ==
    key \notin DOMAIN env \/ (env[key] # <<>> /\ env[key] # <<"[", "]">>)

\* the condition under which a fragment is parsed
FragmentGuard(env, key) ==
    /\ key \in DOMAIN env
    /\ env[key] # <<>>
    /\ env[key] # <<"[", "]">>

\* every level of nesting flattened
RECURSIVE FlattenIntoDeep(_, _)
FlattenIntoDeep(acc, items) ==
    IF items = <<>> THEN acc
    ELSE LET item == Head(items)
         IN  FlattenIntoDeep(IF item.type = "list" THEN FlattenIntoDeep(acc, item.items)
                             ELSE Append(acc, item),
                             Tail(items))

\* a group whose InstanceGroupName is already in the list is dropped
RECURSIVE FlattenIntoUniqueNames(_, _)
FlattenIntoUniqueNames(acc, items) ==
    IF items = <<>> THEN acc
    ELSE LET item == Head(items)
             named == item.type = "dict" /\ "InstanceGroupName" \in DOMAIN item.d
             seen == /\ named
                     /\ \E k \in 1..Len(acc) :
                            /\ acc[k].type = "dict"
                            /\ "InstanceGroupName" \in DOMAIN acc[k].d
                            /\ acc[k].d["InstanceGroupName"] = item.d["InstanceGroupName"]
         IN  FlattenIntoUniqueNames(IF item.type = "list" THEN acc \o item.items
                                    ELSE IF seen THEN acc
                                    ELSE Append(acc, item),
                                    Tail(items))

\* every item appended as it is, a nested list too
FlattenIntoNoExtend(acc, items) == acc \o items

\* the for loop over the items of one parsed list
RECURSIVE FlattenInto(_, _)
FlattenInto(acc, items) ==
    IF items = <<>> THEN acc
    ELSE LET item == Head(items)
         IN  FlattenInto(IF item.type = "list" THEN acc \o item.items
                         ELSE Append(acc, item),
                         Tail(items))

\* the decode error is not caught
OnDecodeErrorPropagate(acc) == [exc |-> "JSONDecodeError", value |-> acc]

\* except json.JSONDecodeError: print a warning
OnDecodeError(acc) == [exc |-> "none", value |-> acc]

\* a value that is no list is appended
OnParsedAppendNonList(acc, v) ==
    [exc |-> "none",
     value |-> IF v.type = "list" THEN FlattenInto(acc, v.items) ELSE Append(acc, v)]

\* what a parsed value adds to combined_settings
OnParsed(acc, v) ==
    [exc |-> "none",
     value |-> IF v.type = "list" THEN FlattenInto(acc, v.items) ELSE acc]

\* one iteration of the loop over the indices
combine_settings_iteration(env, key, acc) ==
    IF FragmentGuard(env, key) THEN
        LET raw == environ_getitem(env, key)
        IN  IF raw.exc # "none" THEN [exc |-> raw.exc, value |-> acc]
            ELSE LET parsed == json_loads(raw.value)
                 IN  IF parsed.exc = "JSONDecodeError" THEN OnDecodeError(acc)
                     ELSE OnParsed(acc, parsed.value)
    ELSE [exc |-> "none", value |-> acc]

\* the loop stops one index early
LastIndexOffByOne(n) == n - 1

\* the last index range(1, num_groups + 1) yields
LastIndex(n) == n

RECURSIVE combine_settings_loop(_, _, _, _, _)
combine_settings_loop(env, prefix, i, last, acc) ==
    IF i > last THEN [exc |-> "none", value |-> acc]
    ELSE LET r == combine_settings_iteration(env, SettingKey(prefix, i), acc)
         IN  IF r.exc # "none" THEN r
             ELSE combine_settings_loop(env, prefix, i + 1, last, r.value)

\* the list is a module-level one that keeps what the previous call left
LeftoverCombinedSettings == combined.value

\* combined_settings = []
NewCombinedSettings == <<>>

combine_settings(env, prefix) ==
    LET n == num_groups(env)
    IN  IF n.exc # "none" THEN [exc |-> n.exc, value |-> <<>>]
        ELSE combine_settings_loop(env, prefix, 1, LastIndex(n.value),
                                   NewCombinedSettings)

-----------------------------------------------------------------------------
(* Python helpers used by enrich_instance_groups *)

\* Body applied to value, value being computed once
Bind(value, Body(_)) == CHOOSE out \in { Body(v) : v \in {value} } : TRUE

\* d[k] = v on a dict
SetItem(d, k, v) == (k :> v) @@ d

\* del d[k]
DelItem(d, k) == [x \in DOMAIN d \ {k} |-> d[x]]

\* os.environ.get(key, '')
environ_get(env, key) == IF key \in DOMAIN env THEN env[key] ELSE <<>>

\* truth value of os.environ.get(key): None and '' are false
environ_truthy(env, key) == key \in DOMAIN env /\ env[key] # <<>>

\* s.split(sep)
RECURSIVE PySplit(_, _)
PySplit(s, sep) ==
    IF \E k \in 1..Len(s) : s[k] = sep
    THEN LET k == CHOOSE j \in 1..Len(s) :
                      s[j] = sep /\ \A h \in 1..(j - 1) : s[h] # sep
         IN  <<SubSeq(s, 1, k - 1)>> \o PySplit(SubSeq(s, k + 1, Len(s)), sep)
    ELSE <<s>>

\* the split made at the first separator instead of the last
PyRsplit1AtFirst(s, sep) ==
    IF \E k \in 1..Len(s) : s[k] = sep
    THEN LET k == CHOOSE j \in 1..Len(s) :
                      s[j] = sep /\ \A h \in 1..(j - 1) : s[h] # sep
         IN  <<SubSeq(s, 1, k - 1), SubSeq(s, k + 1, Len(s))>>
    ELSE <<s>>

\* s.rsplit(sep, 1)
PyRsplit1(s, sep) ==
    IF \E k \in 1..Len(s) : s[k] = sep
    THEN LET k == CHOOSE j \in 1..Len(s) :
                      s[j] = sep /\ \A h \in (j + 1)..Len(s) : s[h] # sep
         IN  <<SubSeq(s, 1, k - 1), SubSeq(s, k + 1, Len(s))>>
    ELSE <<s>>

\* s.split(',') if s and ',' in s else [s] if s else []
CommaList(s) ==
    IF s # <<>> /\ \E k \in 1..Len(s) : s[k] = ","
    THEN PySplit(s, ",")
    ELSE IF s # <<>> THEN <<s>> ELSE <<>>

security_group_ids(env) == CommaList(environ_get(env, <<"SECURITY_GROUP_IDS">>))

private_subnet_ids(env) == CommaList(environ_get(env, <<"PRIVATE_SUBNET_IDS">>))

\* any('TargetAvailabilityZoneId' in group for group in instance_groups)
\* the test made on the list being non-empty
has_target_az_any_group(groups) == groups # <<>>

has_target_az(groups) ==
    \E k \in 1..Len(groups) : "TargetAvailabilityZoneId" \in DOMAIN groups[k]

\* mapping[k] = v on an insertion-ordered dict kept as a sequence of pairs
OrderedSetItem(m, k, v) ==
    IF \E j \in 1..Len(m) : m[j][1] = k
    THEN [j \in 1..Len(m) |-> IF m[j][1] = k THEN <<k, v>> ELSE m[j]]
    ELSE Append(m, <<k, v>>)

\* the loop that fills subnet_to_az_mapping from response['Subnets']
RECURSIVE MappingFromResponse(_, _)
MappingFromResponse(m, subnets) ==
    IF subnets = <<>> THEN m
    ELSE MappingFromResponse(
             OrderedSetItem(m, Head(subnets).SubnetId,
                            Head(subnets).AvailabilityZoneId),
             Tail(subnets))

\* the last matching subnet wins
TargetSubnetLastMatch(m, target_az) ==
    IF \E j \in 1..Len(m) : m[j][2] = target_az
    THEN LET j == CHOOSE i \in 1..Len(m) :
                      m[i][2] = target_az /\ \A h \in (i + 1)..Len(m) : m[h][2] # target_az
         IN  [found |-> TRUE, subnet |-> m[j][1]]
    ELSE [found |-> FALSE, subnet |-> <<>>]

\* the search for the first subnet in the target AZ; found is the truth
\* value of target_subnet
TargetSubnet(m, target_az) ==
    IF \E j \in 1..Len(m) : m[j][2] = target_az
    THEN LET j == CHOOSE i \in 1..Len(m) :
                      m[i][2] = target_az /\ \A h \in 1..(i - 1) : m[h][2] # target_az
         IN  [found |-> m[j][1] # <<>>, subnet |-> m[j][1]]
    ELSE [found |-> FALSE, subnet |-> <<>>]

-----------------------------------------------------------------------------
(* enrich_instance_groups: the body of the loop over the groups *)

\* the role written over the one the group came with
WithExecutionRoleOverwrites(env, g) ==
    IF environ_truthy(env, <<"SAGEMAKER_IAM_ROLE_NAME">>)
    THEN SetItem(g, "ExecutionRole", env[<<"SAGEMAKER_IAM_ROLE_NAME">>])
    ELSE g

\* step 1 of the loop: the execution role
WithExecutionRole(env, g) ==
    IF environ_truthy(env, <<"SAGEMAKER_IAM_ROLE_NAME">>)
       /\ "ExecutionRole" \notin DOMAIN g
    THEN SetItem(g, "ExecutionRole", env[<<"SAGEMAKER_IAM_ROLE_NAME">>])
    ELSE g

\* the LifeCycleConfig built from S3_BUCKET_NAME and ON_CREATE_PATH
NewLifeCycleConfig(s3_bucket_name, on_create_path) ==
    LET path_parts == PyRsplit1(on_create_path, "/")
    IN  IF Len(path_parts) > 1
        THEN [SourceS3Uri |-> <<"s3://">> \o s3_bucket_name \o <<"/">> \o path_parts[1],
              OnCreate |-> path_parts[2]]
        ELSE [SourceS3Uri |-> <<"s3://">> \o s3_bucket_name,
              OnCreate |-> path_parts[1]]

\* the test for an existing LifeCycleConfig dropped
LifeCycleGuardOverwrites(env, g, is_rig) ==
    /\ ~is_rig
    /\ environ_truthy(env, <<"S3_BUCKET_NAME">>)
    /\ environ_truthy(env, <<"ON_CREATE_PATH">>)

\* the test for a restricted group dropped
LifeCycleGuardIgnoresRig(env, g, is_rig) ==
    /\ environ_truthy(env, <<"S3_BUCKET_NAME">>)
    /\ environ_truthy(env, <<"ON_CREATE_PATH">>)
    /\ "LifeCycleConfig" \notin DOMAIN g

\* the condition under which a LifeCycleConfig is injected
LifeCycleGuard(env, g, is_rig) ==
    /\ ~is_rig
    /\ environ_truthy(env, <<"S3_BUCKET_NAME">>)
    /\ environ_truthy(env, <<"ON_CREATE_PATH">>)
    /\ "LifeCycleConfig" \notin DOMAIN g

\* step 2 of the loop: the lifecycle script
WithLifeCycleConfig(env, g, is_rig) ==
    IF LifeCycleGuard(env, g, is_rig)
    THEN SetItem(g, "LifeCycleConfig",
                 NewLifeCycleConfig(env[<<"S3_BUCKET_NAME">>], env[<<"ON_CREATE_PATH">>]))
    ELSE g

\* SecurityGroupIds written whether or not it is there
FillSecurityGroupIdsAlways(ovc, sgs) == SetItem(ovc, "SecurityGroupIds", sgs)

\* SecurityGroupIds of an OverrideVpcConfig filled in when it is absent
FillSecurityGroupIds(ovc, sgs) ==
    IF "SecurityGroupIds" \notin DOMAIN ovc
    THEN SetItem(ovc, "SecurityGroupIds", sgs)
    ELSE ovc

\* step 3 of the loop: an existing OverrideVpcConfig
WithSecurityGroupIds(g, sgs) ==
    IF "OverrideVpcConfig" \in DOMAIN g
    THEN SetItem(g, "OverrideVpcConfig", FillSecurityGroupIds(g["OverrideVpcConfig"], sgs))
    ELSE g

\* the check passes on an empty mapping
TargetAzPreconditionFailsSgOnly(mapping, sgs) == sgs = <<>>

\* not subnet_to_az_mapping or not security_group_ids
TargetAzPreconditionFails(mapping, sgs) == mapping = <<>> \/ sgs = <<>>

\* the merged OverrideVpcConfig keeps the subnets it had
WithTargetSubnetKeepsSubnets(g, sgs, target_subnet) ==
    IF "OverrideVpcConfig" \in DOMAIN g
    THEN SetItem(g, "OverrideVpcConfig",
                 IF "Subnets" \in DOMAIN g["OverrideVpcConfig"]
                 THEN FillSecurityGroupIds(g["OverrideVpcConfig"], sgs)
                 ELSE SetItem(FillSecurityGroupIds(g["OverrideVpcConfig"], sgs),
                              "Subnets", <<target_subnet>>))
    ELSE SetItem(g, "OverrideVpcConfig",
                 [SecurityGroupIds |-> sgs, Subnets |-> <<target_subnet>>])

\* the target subnet written into OverrideVpcConfig
WithTargetSubnet(g, sgs, target_subnet) ==
    IF "OverrideVpcConfig" \in DOMAIN g
    THEN SetItem(g, "OverrideVpcConfig",
                 SetItem(FillSecurityGroupIds(g["OverrideVpcConfig"], sgs),
                         "Subnets", <<target_subnet>>))
    ELSE SetItem(g, "OverrideVpcConfig",
                 [SecurityGroupIds |-> sgs, Subnets |-> <<target_subnet>>])

\* the key is kept when a subnet is found
AfterTargetAzKeepsKeyWhenFound(g, sgs, found) ==
    IF found.found
    THEN WithTargetSubnet(g, sgs, found.subnet)
    ELSE DelItem(g, "TargetAvailabilityZoneId")

\* an empty Subnets written when no subnet is found
AfterTargetAzEmptySubnetsWhenNotFound(g, sgs, found) ==
    IF found.found
    THEN DelItem(WithTargetSubnet(g, sgs, found.subnet), "TargetAvailabilityZoneId")
    ELSE SetItem(DelItem(g, "TargetAvailabilityZoneId"), "OverrideVpcConfig",
                 SetItem(IF "OverrideVpcConfig" \in DOMAIN g
                         THEN g["OverrideVpcConfig"] ELSE <<>>,
                         "Subnets", <<>>))

\* the key is kept when no subnet is found
AfterTargetAzKeepsKeyWhenNotFound(g, sgs, found) ==
    IF found.found
    THEN DelItem(WithTargetSubnet(g, sgs, found.subnet), "TargetAvailabilityZoneId")
    ELSE g

\* the two branches that follow the search for the target subnet
AfterTargetAz(g, sgs, found) ==
    IF found.found
    THEN DelItem(WithTargetSubnet(g, sgs, found.subnet), "TargetAvailabilityZoneId")
    ELSE DelItem(g, "TargetAvailabilityZoneId")

\* step 4 of the loop: TargetAvailabilityZoneId
WithTargetAz(g, mapping, sgs) ==
    IF "TargetAvailabilityZoneId" \in DOMAIN g
    THEN IF TargetAzPreconditionFails(mapping, sgs)
         THEN [exc |-> "ValueError", group |-> g]
         ELSE [exc |-> "none",
               group |-> AfterTargetAz(g, sgs,
                             TargetSubnet(mapping, g["TargetAvailabilityZoneId"]))]
    ELSE [exc |-> "none", group |-> g]

\* one iteration of the loop: the group as the iteration leaves it, and the
\* exception it raises if any
enrich_instance_group(env, g, is_rig, mapping) ==
    WithTargetAz(
        WithSecurityGroupIds(
            WithLifeCycleConfig(env, WithExecutionRole(env, g), is_rig),
            security_group_ids(env)),
        mapping, security_group_ids(env))

-----------------------------------------------------------------------------
(* The EC2 subnets that exist, and describe_subnets *)

SubnetAz ==
    [SubnetA |-> <<"az2">>, SubnetB |-> <<"az1">>, SubnetC |-> <<"az1">>]

KnownSubnet(id) == Len(id) = 1 /\ id[1] \in DOMAIN SubnetAz

SubnetRecord(id) == [SubnetId |-> id, AvailabilityZoneId |-> SubnetAz[id[1]]]

\* the Subnets lists a successful describe_subnets(SubnetIds=ids) can answer
\* with: the requested subnets, each once, in any order
DescribeSubnetsResponses(ids) ==
    IF \A k \in 1..Len(ids) : KnownSubnet(ids[k])
    THEN LET S == {ids[k] : k \in 1..Len(ids)}
             n == Cardinality(S)
         IN  {[k \in 1..n |-> SubnetRecord(p[k])] :
                 p \in {q \in [1..n -> S] : \A a, b \in 1..n : a # b => q[a] # q[b]}}
    ELSE {}

-----------------------------------------------------------------------------
(* State shared by the specifications *)

Unset == <<"(unset)">>

\* os.environ holding the variables assign gives a value other than Unset
EnvOf(assign) == [k \in {x \in DOMAIN assign : assign[x] # Unset} |-> assign[k]]

NoOutcome == [exc |-> "none", value |-> <<>>]

CombineIdle ==
    /\ settings_prefix = "none"
    /\ combined = NoOutcome

EnrichIdle ==
    /\ isRig = FALSE
    /\ groups_in = <<>>
    /\ instance_groups = <<>>
    /\ idx = 0
    /\ subnet_to_az_mapping = <<>>
    /\ describe_calls = 0
    /\ describe_failed = FALSE
    /\ enrich_exc = "none"

NoException == [exc |-> "none", raised_in |-> "none"]

HandlerIdle ==
    /\ invocations = 0
    /\ request_type = "none"
    /\ cfn_sent = <<>>
    /\ handler_exc = NoException
    /\ create_params = <<>>
    /\ template_generated = FALSE
    /\ s3_puts = <<>>
    /\ s3_deletes = <<>>
    /\ describe_answers = <<>>

combine_vars == <<settings_prefix, combined>>

handler_vars == <<invocations, request_type, cfn_sent, handler_exc, create_params,
                  template_generated, s3_puts, s3_deletes, describe_answers>>

enrich_vars == <<isRig, groups_in, instance_groups, idx, subnet_to_az_mapping,
                 describe_calls, describe_failed, enrich_exc>>

GrafanaIdle ==
    /\ retries = 0
    /\ describe_workspace_calls = 0
    /\ waits = 0
    /\ status = "none"
    /\ failed_status_at = 0
    /\ grafana_exc = "none"

grafana_vars == <<retries, describe_workspace_calls, waits, status, failed_status_at,
                  grafana_exc>>

DeleteClusterIdle ==
    /\ cluster_gone = FALSE
    /\ cluster_calls = <<>>
    /\ delete_result = "none"

delete_cluster_vars == <<cluster_gone, cluster_calls, delete_result>>

\* the state of the code that is not running
OtherLambdasIdle == GrafanaIdle /\ DeleteClusterIdle /\ sagemaker_calls = <<>>

other_lambda_vars == <<grafana_vars, delete_cluster_vars, sagemaker_calls>>

-----------------------------------------------------------------------------
(* combine_settings as its two callers call it *)

Prefixes == {"INSTANCE_GROUP_SETTINGS", "RIG_SETTINGS"}

\* the call and what the caller learns of it
CombineSettingsCalled(prefix) ==
    /\ settings_prefix' = prefix
    /\ combined' = combine_settings(environ, prefix)
    /\ pc' = IF combined'.exc = "none" THEN "combine_returned" ELSE "combine_raised"
    /\ UNCHANGED <<environ, other_lambda_vars, handler_vars, enrich_vars>>

\* on_create: instance_groups = combine_settings("INSTANCE_GROUP_SETTINGS")
on_create_combine ==
    /\ pc = "caller"
    /\ call_site' = "on_create"
    /\ CombineSettingsCalled("INSTANCE_GROUP_SETTINGS")

\* create_hyperpod_cluster: rig_groups = combine_settings("RIG_SETTINGS")
create_hyperpod_cluster_combine ==
    /\ pc = "caller"
    /\ call_site' = "create_hyperpod_cluster"
    /\ CombineSettingsCalled("RIG_SETTINGS")

\* the fragments a settings variable is given
FragmentChoices ==
    { Unset,
      <<>>,
      <<"[", "]">>,
      <<"[", " ", "]">>,
      <<"[", "ObjA", "]">>,
      <<"[", "ObjA", ",", "ObjB", "]">>,
      <<"[", "[", "ObjA", ",", "ObjB", "]", "]">>,
      <<"[", "[", "ObjB", "]", ",", "ObjA", "]">>,
      <<"[", "[", "[", "ObjA", "]", "]", "]">>,
      <<"{not json">>,
      <<"ObjA">> }

\* a fragment that no call may pick up: stored at index 0 and under the prefix
\* the fragments under test do not use
Decoy == <<"[", "ObjD", "]">>

NumGroupsChoices ==
    { Unset, <<>>, <<"many">> } \cup { PyStrOfNat(n) : n \in 0..MaxIndex }

CombineEnviron(rich, frs, n) ==
    EnvOf([k \in {NumGroupsKey} \cup {SettingKey(p, i) : p \in Prefixes, i \in 0..MaxIndex} |->
             IF k = NumGroupsKey THEN n
             ELSE IF \E i \in 1..MaxIndex : k = SettingKey(rich, i)
                  THEN frs[CHOOSE i \in 1..MaxIndex : k = SettingKey(rich, i)]
                  ELSE Decoy])

InitCombine ==
    /\ \E rich \in Prefixes, frs \in [1..MaxIndex -> FragmentChoices],
          n \in NumGroupsChoices :
          environ = CombineEnviron(rich, frs, n)
    /\ pc = "caller"
    /\ call_site = "none"
    /\ CombineIdle
    /\ EnrichIdle
    /\ HandlerIdle
    /\ OtherLambdasIdle

NextCombine ==
    \/ on_create_combine
    \/ create_hyperpod_cluster_combine

SpecCombine == InitCombine /\ [][NextCombine]_vars

-----------------------------------------------------------------------------
(* enrich_instance_groups as its two callers call it *)

\* the call and its isRig argument
EnrichCalled(is_rig) ==
    /\ isRig' = is_rig
    /\ pc' = "enrich_lookup"
    /\ UNCHANGED <<environ, other_lambda_vars, handler_vars, combine_vars, groups_in, instance_groups, idx,
                   subnet_to_az_mapping, describe_calls, describe_failed, enrich_exc>>

\* on_create: if instance_groups:
\*     instance_groups = enrich_instance_groups(instance_groups, isRig=False)
on_create_enrich ==
    /\ pc = "caller"
    /\ call_site' = "on_create"
    /\ instance_groups # <<>>
    /\ EnrichCalled(FALSE)

\* the restricted groups enriched as ordinary groups
RigEnrichCalledAsNotRig == EnrichCalled(FALSE)

\* the call create_hyperpod_cluster makes
RigEnrichCalled == EnrichCalled(TRUE)

\* create_hyperpod_cluster: if rig_groups:
\*     rig_groups = enrich_instance_groups(rig_groups, isRig=True)
create_hyperpod_cluster_enrich ==
    /\ pc = "caller"
    /\ call_site' = "create_hyperpod_cluster"
    /\ instance_groups # <<>>
    /\ RigEnrichCalled

\* the subnet lookup is needed
LookupNeeded ==
    has_target_az(instance_groups) /\ private_subnet_ids(environ) # <<>>

\* no group has TargetAvailabilityZoneId, or no subnet is configured
enrich_no_lookup ==
    /\ pc = "enrich_lookup"
    /\ ~LookupNeeded
    /\ subnet_to_az_mapping' = <<>>
    /\ idx' = 0
    /\ pc' = "enrich_loop"
    /\ UNCHANGED <<environ, other_lambda_vars, handler_vars, call_site, combine_vars, isRig, groups_in, instance_groups,
                   describe_calls, describe_failed, enrich_exc>>

\* ec2.describe_subnets(SubnetIds=private_subnet_ids) answers
enrich_describe_subnets ==
    /\ pc = "enrich_lookup"
    /\ LookupNeeded
    /\ \E subnets \in DescribeSubnetsResponses(private_subnet_ids(environ)) :
          subnet_to_az_mapping' = MappingFromResponse(<<>>, subnets)
    /\ describe_calls' = describe_calls + 1
    /\ idx' = 0
    /\ pc' = "enrich_loop"
    /\ UNCHANGED <<environ, other_lambda_vars, handler_vars, call_site, combine_vars, isRig, groups_in, instance_groups,
                   describe_failed, enrich_exc>>

\* the lookup is not wrapped in try/except: its exception ends the call
enrich_describe_subnets_propagates ==
    /\ pc = "enrich_lookup"
    /\ LookupNeeded
    /\ describe_calls' = describe_calls + 1
    /\ describe_failed' = TRUE
    /\ enrich_exc' = "ClientError"
    /\ pc' = "enrich_raised"
    /\ UNCHANGED <<environ, other_lambda_vars, handler_vars, call_site, combine_vars, isRig, groups_in, instance_groups,
                   idx, subnet_to_az_mapping>>

\* boto3.client('ec2') or describe_subnets raises: except Exception, a warning
enrich_describe_subnets_raises ==
    /\ pc = "enrich_lookup"
    /\ LookupNeeded
    /\ subnet_to_az_mapping' = <<>>
    /\ describe_calls' = describe_calls + 1
    /\ describe_failed' = TRUE
    /\ idx' = 0
    /\ pc' = "enrich_loop"
    /\ UNCHANGED <<environ, other_lambda_vars, handler_vars, call_site, combine_vars, isRig, groups_in, instance_groups,
                   enrich_exc>>

\* the iteration leaves its group at the mirrored position of the list
MutatedInPlaceMirrored(groups, k, g) == [groups EXCEPT ![Len(groups) + 1 - k] = g]

\* the list after the iteration over its k-th dict, which the loop body
\* mutates in place, has left that dict as g
MutatedInPlace(groups, k, g) == [groups EXCEPT ![k] = g]

\* one iteration of  for instance_group in instance_groups
enrich_iteration ==
    /\ pc = "enrich_loop"
    /\ idx < Len(instance_groups)
    /\ LET r == enrich_instance_group(environ, instance_groups[idx + 1], isRig,
                                      subnet_to_az_mapping)
       IN  /\ instance_groups' = MutatedInPlace(instance_groups, idx + 1, r.group)
           /\ enrich_exc' = r.exc
           /\ IF r.exc = "none"
              THEN idx' = idx + 1 /\ pc' = "enrich_loop"
              ELSE idx' = idx /\ pc' = "enrich_raised"
    /\ UNCHANGED <<environ, other_lambda_vars, handler_vars, call_site, combine_vars, isRig, groups_in, subnet_to_az_mapping,
                   describe_calls, describe_failed>>

\* return instance_groups
enrich_return ==
    /\ pc = "enrich_loop"
    /\ idx = Len(instance_groups)
    /\ pc' = "enrich_returned"
    /\ UNCHANGED <<environ, other_lambda_vars, handler_vars, call_site, combine_vars, enrich_vars>>

\* the shapes of a group: which optional keys it has
OwnLifeCycleConfig == [SourceS3Uri |-> <<"s3://", "own">>, OnCreate |-> <<"own.sh">>]

OverrideVpcConfigChoices ==
    { [SecurityGroupIds |-> << <<"sg-own">> >>, Subnets |-> << <<"subnet-own">> >>],
      [SecurityGroupIds |-> << <<"sg-own">> >>],
      [Subnets |-> << <<"subnet-own">> >>],
      <<>> }

TargetAzChoices == { <<"az1">>, <<"az2">> }

OptionalKey(present, k, v) == IF present THEN (k :> v) ELSE <<>>

GroupShapes ==
    { OptionalKey(role, "ExecutionRole", <<"own-role">>)
        @@ OptionalKey(lcc, "LifeCycleConfig", OwnLifeCycleConfig)
        @@ ovc @@ taz :
        role \in BOOLEAN, lcc \in BOOLEAN,
        ovc \in { <<>> } \cup { ("OverrideVpcConfig" :> o) : o \in OverrideVpcConfigChoices },
        taz \in { <<>> } \cup { ("TargetAvailabilityZoneId" :> z) : z \in TargetAzChoices } }

\* the shapes of the groups after the first
TailShapes ==
    { <<>>,
      [TargetAvailabilityZoneId |-> <<"az1">>],
      [TargetAvailabilityZoneId |-> <<"az2">>,
       OverrideVpcConfig |-> [SecurityGroupIds |-> << <<"sg-own">> >>,
                              Subnets |-> << <<"subnet-own">> >>]] }

Named(shape, k) == ("InstanceGroupName" :> (<<"group-">> \o PyStrOfNat(k))) @@ shape

GroupLists ==
    UNION { { [k \in 1..n |-> Named(IF k = 1 THEN first ELSE rest[k], k)] :
                first \in GroupShapes, rest \in [2..n -> TailShapes] } :
            n \in 1..MaxGroups }

EnrichEnvirons ==
    { EnvOf([k \in { <<"SAGEMAKER_IAM_ROLE_NAME">>, <<"S3_BUCKET_NAME">>,
                     <<"ON_CREATE_PATH">>, <<"SECURITY_GROUP_IDS">>,
                     <<"PRIVATE_SUBNET_IDS">> } |->
               CASE k = <<"SAGEMAKER_IAM_ROLE_NAME">> -> role
                 [] k = <<"S3_BUCKET_NAME">> -> script[1]
                 [] k = <<"ON_CREATE_PATH">> -> script[2]
                 [] k = <<"SECURITY_GROUP_IDS">> -> sgs
                 [] k = <<"PRIVATE_SUBNET_IDS">> -> subnets]) :
        role \in { Unset, <<"role">> },
        script \in { <<Unset, Unset>>, << <<"bucket">>, Unset >>,
                     << <<"bucket">>, <<"on_create.sh">> >>,
                     << <<"bucket">>, <<"scripts", "/", "on_create.sh">> >>,
                     << <<"bucket">>, <<"scripts", "/", "v1", "/", "on_create.sh">> >>,
                     << Unset, <<"scripts", "/", "on_create.sh">> >> },
        sgs \in { Unset, <<"sg-1">>, <<"sg-1", ",", "sg-2">> },
        subnets \in { Unset, <<"SubnetA">>, <<"SubnetA", ",", "SubnetB">>,
                      <<"SubnetC", ",", "SubnetB">> } }

InitEnrich ==
    /\ environ \in EnrichEnvirons
    /\ instance_groups \in GroupLists
    /\ groups_in = instance_groups
    /\ pc = "caller"
    /\ call_site = "none"
    /\ CombineIdle
    /\ HandlerIdle
    /\ OtherLambdasIdle
    /\ isRig = FALSE
    /\ idx = 0
    /\ subnet_to_az_mapping = <<>>
    /\ describe_calls = 0
    /\ describe_failed = FALSE
    /\ enrich_exc = "none"

NextEnrich ==
    \/ on_create_enrich
    \/ create_hyperpod_cluster_enrich
    \/ enrich_no_lookup
    \/ enrich_describe_subnets
    \/ enrich_describe_subnets_raises
    \/ enrich_iteration
    \/ enrich_return

SpecEnrich == InitEnrich /\ [][NextEnrich]_vars

-----------------------------------------------------------------------------
(* enrich_instance_groups as one call *)

NoLookup == [ok |-> FALSE, subnets |-> <<>>]

\* the loop over the groups from the i-th on: the list as the loop leaves it
\* and the exception that ended it, if any
RECURSIVE enrich_loop(_, _, _, _, _)
enrich_loop(env, groups, i, is_rig, mapping) ==
    IF i > Len(groups) THEN [exc |-> "none", groups |-> groups]
    ELSE Bind(enrich_instance_group(env, groups[i], is_rig, mapping),
              LAMBDA r :
                  Bind(MutatedInPlace(groups, i, r.group),
                       LAMBDA mutated :
                           IF r.exc # "none"
                           THEN [exc |-> r.exc, groups |-> mutated]
                           ELSE enrich_loop(env, mutated, i + 1, is_rig, mapping)))

\* enrich_instance_groups(groups, isRig) when describe_subnets, if it is
\* called, answers with lookup: [ok, subnets]
enrich_instance_groups(env, groups, is_rig, lookup) ==
    LET needed == has_target_az(groups) /\ private_subnet_ids(env) # <<>>
    IN  Bind(IF needed /\ lookup.ok
             THEN MappingFromResponse(<<>>, lookup.subnets)
             ELSE <<>>,
             LAMBDA mapping :
                 Bind(enrich_loop(env, groups, 1, is_rig, mapping),
                      LAMBDA r :
                          [exc |-> r.exc,
                           groups |-> r.groups,
                           describe_answers |-> IF needed THEN <<lookup>> ELSE <<>>]))

\* the dicts a list of parsed JSON objects holds
GroupsOf(items) == [k \in 1..Len(items) |-> items[k].d]

-----------------------------------------------------------------------------
(* Helpers of create_hyperpod_cluster *)

\* os.environ.get('ORCHESTRATOR_TYPE', 'EKS')
get_orchestrator_type(env) ==
    IF <<"ORCHESTRATOR_TYPE">> \in DOMAIN env THEN env[<<"ORCHESTRATOR_TYPE">>]
    ELSE <<"EKS">>

\* s.split(sep, 1)
PySplit1(s, sep) ==
    IF \E k \in 1..Len(s) : s[k] = sep
    THEN LET k == CHOOSE j \in 1..Len(s) :
                      s[j] = sep /\ \A h \in 1..(j - 1) : s[h] # sep
         IN  <<SubSeq(s, 1, k - 1), SubSeq(s, k + 1, Len(s))>>
    ELSE <<s>>

\* s.strip()
RECURSIVE PyStrip(_)
PyStrip(s) ==
    IF s # <<>> /\ s[1] \in JsonWhitespace THEN PyStrip(Tail(s))
    ELSE IF s # <<>> /\ s[Len(s)] \in JsonWhitespace
         THEN PyStrip(SubSeq(s, 1, Len(s) - 1))
    ELSE s

\* the keys of the object literals in the order the literals list them
JsonKeyOrder ==
    <<"InstanceGroupName", "InstanceGroupType", "InstanceType",
      "TargetAvailabilityZoneId", "Key", "Value">>

\* [{'Key': k, 'Value': v} for k, v in tag_list.items()]
TagsOfDict(d) ==
    LET keys == SelectSeq(JsonKeyOrder, LAMBDA k : k \in DOMAIN d)
    IN  [j \in 1..Len(keys) |-> PyDict([Key |-> <<keys[j]>>, Value |-> d[keys[j]]])]

\* the loop over the comma-separated key=value pairs
RECURSIVE TagsOfPairs(_)
TagsOfPairs(tag_pairs) ==
    IF tag_pairs = <<>> THEN <<>>
    ELSE LET pair == Head(tag_pairs)
             kv == PySplit1(pair, "=")
         IN  (IF Len(kv) > 1
              THEN <<PyDict([Key |-> PyStrip(kv[1]), Value |-> PyStrip(kv[2])])>>
              ELSE <<>>) \o TagsOfPairs(Tail(tag_pairs))

get_tags_from_env(env) ==
    LET tags_str == environ_get(env, <<"CLUSTER_TAGS">>)
        tag_list == json_loads(tags_str)
    IN  IF tags_str = <<>> THEN <<>>
        ELSE IF tag_list.exc = "JSONDecodeError"
             THEN TagsOfPairs(PySplit(tags_str, ","))
        ELSE IF tag_list.value.type = "list" THEN tag_list.value.items
        ELSE IF tag_list.value.type = "dict" THEN TagsOfDict(tag_list.value.d)
        ELSE <<>>

\* s.lower() on the lexemes that spell a truth value
PyLower(s) ==
    [k \in 1..Len(s) |->
        IF s[k] \in {"true", "True", "TRUE"} THEN "true"
        ELSE IF s[k] \in {"false", "False", "FALSE"} THEN "false"
        ELSE s[k]]

\* the S3 key upload_slurm_provisioning_parameters_json writes
s3_file_key(env) ==
    LET on_create_path == environ_get(env, <<"ON_CREATE_PATH">>)
        path_parts == PyRsplit1(on_create_path, "/")
        path_prefix == IF on_create_path # <<>> /\ Len(path_parts) > 1
                       THEN path_parts[1] ELSE <<>>
    IN  IF path_prefix # <<>>
        THEN path_prefix \o <<"/", "provisioning_parameters.json">>
        ELSE <<"provisioning_parameters.json">>

\* the directory of ON_CREATE_PATH left out of the key
params_key_without_prefix(env) == <<"provisioning_parameters.json">>

\* the S3 key on_delete removes in SLURM mode
params_key(env) ==
    LET on_create_path == environ_get(env, <<"ON_CREATE_PATH">>)
        path_parts == PyRsplit1(on_create_path, "/")
        path_prefix == IF on_create_path # <<>> /\ Len(path_parts) > 1
                       THEN path_parts[1] ELSE <<>>
    IN  IF path_prefix # <<>>
        THEN path_prefix \o <<"/", "provisioning_parameters.json">>
        ELSE <<"provisioning_parameters.json">>

template_key == <<"hyperpod-cluster-template.yaml">>

-----------------------------------------------------------------------------
(* __get_provisioning_parameters_file *)

NoGroupsSeen ==
    [exc |-> "none", login_group |-> <<>>, compute_group |-> <<>>,
     controller_group |-> <<>>, compute_group_to_type |-> <<>>]

\* instance_group.get("InstanceGroupType"); None is written <<>>
InstanceGroupTypeOf(g) ==
    IF "InstanceGroupType" \in DOMAIN g THEN g["InstanceGroupType"] ELSE <<>>

\* the loop that sorts the groups by InstanceGroupType
RECURSIVE ClassifyGroups(_, _)
ClassifyGroups(groups, acc) ==
    IF groups = <<>> THEN acc
    ELSE LET g == Head(groups)
             t == InstanceGroupTypeOf(g)
         IN  IF "InstanceGroupName" \notin DOMAIN g
             THEN [acc EXCEPT !.exc = "KeyError"]
             ELSE IF t = <<"Login">>
             THEN ClassifyGroups(Tail(groups),
                      [acc EXCEPT !.login_group = Append(@, g["InstanceGroupName"])])
             ELSE IF t = <<"Compute">>
             THEN IF "InstanceType" \notin DOMAIN g
                  THEN [acc EXCEPT !.exc = "KeyError"]
                  ELSE ClassifyGroups(Tail(groups),
                           [acc EXCEPT
                               !.compute_group = Append(@, g["InstanceGroupName"]),
                               !.compute_group_to_type =
                                   OrderedSetItem(@, g["InstanceGroupName"],
                                                  g["InstanceType"])])
             ELSE IF t = <<"Controller">>
             THEN ClassifyGroups(Tail(groups),
                      [acc EXCEPT !.controller_group = Append(@, g["InstanceGroupName"])])
             ELSE [acc EXCEPT !.exc = "Exception"]

\* d[k] on an insertion-ordered dict kept as a sequence of pairs
OrderedGetItem(m, k) == m[CHOOSE j \in 1..Len(m) : m[j][1] = k][2]

\* the fsx keys added when ENABLED_FSX is true
WithFsx(env, config_data) ==
    IF PyLower(IF <<"ENABLED_FSX">> \in DOMAIN env THEN env[<<"ENABLED_FSX">>]
               ELSE <<"false">>) = <<"true">>
    THEN SetItem(SetItem(config_data, "fsx_dns_name",
                         environ_get(env, <<"FSX_DNS_NAME">>)),
                 "fsx_mountname", environ_get(env, <<"FSX_MOUNT_NAME">>))
    ELSE config_data

\* json.dumps(config_data, indent=2): the text that spells config_data
json_dumps(value) == [json |-> value]

\* config_data for the groups as ClassifyGroups sorted them
ConfigData(env, c) ==
    LET config_data ==
            [version |-> <<"1.0.0">>,
             workload_manager |-> <<"slurm">>,
             controller_group |-> c.controller_group[1],
             worker_groups |->
                 [j \in 1..Len(c.compute_group) |->
                     [instance_group_name |-> c.compute_group[j],
                      partition_name |-> OrderedGetItem(c.compute_group_to_type,
                                                        c.compute_group[j])]]]
    IN  WithFsx(env, IF c.login_group # <<>>
                     THEN SetItem(config_data, "login_group", c.login_group[1])
                     ELSE config_data)

\* the number of controllers tested for being at least one
get_provisioning_parameters_file_some_controller(env, groups) ==
    Bind(ClassifyGroups(groups, NoGroupsSeen),
         LAMBDA c :
             IF c.exc # "none" THEN [exc |-> c.exc, body |-> json_dumps(<<>>)]
             ELSE IF Len(c.login_group) > 1 \/ Len(c.controller_group) < 1
                  THEN [exc |-> "Exception", body |-> json_dumps(<<>>)]
             ELSE [exc |-> "none", body |-> json_dumps(ConfigData(env, c))])

get_provisioning_parameters_file(env, groups) ==
    Bind(ClassifyGroups(groups, NoGroupsSeen),
         LAMBDA c :
             IF c.exc # "none" THEN [exc |-> c.exc, body |-> json_dumps(<<>>)]
             ELSE IF Len(c.login_group) > 1 \/ Len(c.controller_group) # 1
                  THEN [exc |-> "Exception", body |-> json_dumps(<<>>)]
             ELSE [exc |-> "none", body |-> json_dumps(ConfigData(env, c))])

-----------------------------------------------------------------------------
(* What one invocation does: the effects a handler has had when it ends *)

NoEffects ==
    [exc |-> "none", raised_in |-> "none", combined |-> NoOutcome,
     instance_groups |-> <<>>, create_params |-> <<>>,
     template_generated |-> FALSE, s3_puts |-> <<>>, s3_deletes |-> <<>>,
     describe_answers |-> <<>>, response_data |-> <<>>, rig_groups |-> <<>>,
     deleted_files |-> <<>>]

\* the exception exc leaves the function where
Raise(fx, exc, where) == [fx EXCEPT !.exc = exc, !.raised_in = where]

\* s3.put_object(Bucket=bucket, ...) raises: the bucket name is empty or S3
\* refuses the call
PutObjectRaises(bucket, accepted) == bucket = <<>> \/ ~accepted

\* upload_slurm_provisioning_parameters_json(instance_groups)
upload_slurm_provisioning_parameters_json(env, x, fx) ==
    LET s3_bucket_name == environ_get(env, <<"S3_BUCKET_NAME">>)
    IN  IF get_orchestrator_type(env) # <<"SLURM">> THEN fx
        ELSE IF ~x.s3_client
             THEN Raise(fx, "BotoCoreError", "upload_slurm_provisioning_parameters_json")
        ELSE Bind(get_provisioning_parameters_file(env, fx.instance_groups),
                  LAMBDA body :
                      IF body.exc # "none"
                      THEN Raise(fx, body.exc, "__get_provisioning_parameters_file")
                      ELSE IF PutObjectRaises(s3_bucket_name, x.put_parameters)
                      THEN Raise(fx, "ClientError",
                                 "upload_slurm_provisioning_parameters_json")
                      ELSE [fx EXCEPT !.s3_puts =
                               Append(@, [Bucket |-> s3_bucket_name,
                                          Key |-> s3_file_key(env),
                                          Body |-> body.body])])

\* del instance_group['InstanceGroupType'] for every group that has it
WithoutInstanceGroupType(groups) ==
    [k \in 1..Len(groups) |-> DelItem(groups[k], "InstanceGroupType")]

\* yaml.dump(template, ..., Dumper=NoAliasDumper): the text that spells the
\* template, every value written out in full
generate_cluster_template_yaml(params) ==
    [yaml |->
        [AWSTemplateFormatVersion |-> <<"2010-09-09">>,
         Resources |-> [NewHyperPodCluster |->
                           [Type |-> <<"AWS::SageMaker::Cluster">>,
                            Properties |-> params]],
         Outputs |-> <<"HyperPodClusterArn", "HyperPodClusterName">>]]

\* yaml_str = generate_cluster_template_yaml(create_params)
\* template_url = upload_cluster_template_to_s3(yaml_str)
upload_cluster_template(env, x, fx) ==
    LET yaml_str == generate_cluster_template_yaml(fx.create_params)
        generated == [fx EXCEPT !.template_generated = TRUE]
    IN  IF ~x.s3_client
        THEN Raise(generated, "BotoCoreError", "upload_cluster_template_to_s3")
        ELSE IF <<"S3_BUCKET_NAME">> \notin DOMAIN env
             THEN Raise(generated, "KeyError", "upload_cluster_template_to_s3")
        ELSE IF PutObjectRaises(env[<<"S3_BUCKET_NAME">>], x.put_template)
             THEN Raise(generated, "ClientError", "upload_cluster_template_to_s3")
        ELSE [generated EXCEPT
                 !.s3_puts = Append(@, [Bucket |-> env[<<"S3_BUCKET_NAME">>],
                                        Key |-> template_key, Body |-> yaml_str]),
                 !.response_data =
                     [ClusterName |-> env[<<"HYPER_POD_CLUSTER_NAME">>],
                      TemplateUrl |-> <<"https://">> \o env[<<"S3_BUCKET_NAME">>]
                                      \o <<".s3.amazonaws.com/">> \o template_key]]

-----------------------------------------------------------------------------
(* create_hyperpod_cluster, on_create, on_delete and lambda_handler *)

\* the checks of HYPER_POD_CLUSTER_NAME and NODE_RECOVERY fail
ClusterParametersInvalid(env) ==
    \/ ~environ_truthy(env, <<"HYPER_POD_CLUSTER_NAME">>)
    \/ ~environ_truthy(env, <<"NODE_RECOVERY">>)
    \/ env[<<"NODE_RECOVERY">>] \notin { <<"Automatic">>, <<"None">> }

\* the VPC configuration validated whatever the orchestrator
VpcConfigInvalidAnyOrchestrator(env) ==
    security_group_ids(env) = <<>> \/ private_subnet_ids(env) = <<>>

\* the validation of the VPC configuration fails
VpcConfigInvalid(env) ==
    /\ get_orchestrator_type(env) = <<"EKS">>
    /\ security_group_ids(env) = <<>> \/ private_subnet_ids(env) = <<>>

\* describe_answers with the answers given to the call made from call_site_
AnswersLogged(fx, call_site_, answers) ==
    [fx EXCEPT !.describe_answers =
        @ \o [j \in 1..Len(answers) |->
                 [call_site |-> call_site_, answer |-> answers[j]]]]

\* rig_groups = enrich_instance_groups(rig_groups, isRig=True)
restricted_enriched(env, x, fx, rig_groups) ==
    Bind(enrich_instance_groups(env, rig_groups, TRUE, x.rig_lookup),
         LAMBDA e :
             IF e.exc # "none"
             THEN [Raise(AnswersLogged(fx, "create_hyperpod_cluster", e.describe_answers),
                         e.exc, "enrich_instance_groups")
                      EXCEPT !.rig_groups = e.groups]
             ELSE [AnswersLogged(fx, "create_hyperpod_cluster", e.describe_answers)
                      EXCEPT !.rig_groups = e.groups])

\* rig_groups = combine_settings("RIG_SETTINGS") and its enrichment
restricted_instance_groups(env, x, fx) ==
    Bind(combine_settings(env, "RIG_SETTINGS"),
         LAMBDA c :
             IF c.exc # "none" THEN Raise(fx, c.exc, "combine_settings")
             ELSE IF c.value = <<>> THEN fx
             ELSE restricted_enriched(env, x, fx, GroupsOf(c.value)))

\* create_params as it stands when the template is generated
CreateParams(env, fx) ==
    LET named == [ClusterName |-> env[<<"HYPER_POD_CLUSTER_NAME">>],
                  NodeRecovery |-> env[<<"NODE_RECOVERY">>]]
        vpc == IF private_subnet_ids(env) # <<>>
               THEN SetItem(named, "VpcConfig",
                            [SecurityGroupIds |-> security_group_ids(env),
                             Subnets |-> private_subnet_ids(env)])
               ELSE named
        orchestrated ==
               IF get_orchestrator_type(env) # <<"SLURM">>
               THEN SetItem(vpc, "Orchestrator",
                            [Eks |-> [ClusterArn |-> environ_get(env, <<"EKS_CLUSTER_ARN">>)]])
               ELSE vpc
        grouped == IF fx.instance_groups # <<>>
                   THEN SetItem(orchestrated, "InstanceGroups", fx.instance_groups)
                   ELSE orchestrated
        tagged == IF get_tags_from_env(env) # <<>>
                  THEN SetItem(grouped, "Tags", get_tags_from_env(env))
                  ELSE grouped
        restricted == IF fx.rig_groups # <<>>
                      THEN SetItem(tagged, "RestrictedInstanceGroups", fx.rig_groups)
                      ELSE tagged
    IN  IF get_orchestrator_type(env) # <<"SLURM">>
           /\ environ_get(env, <<"NODE_PROVISIONING_MODE">>) = <<"Continuous">>
        THEN SetItem(restricted, "NodeProvisioningMode", <<"Continuous">>)
        ELSE restricted

\* create_hyperpod_cluster from the VPC validation on; the
\* provisioning parameters, if any, are uploaded
create_hyperpod_cluster_validated(env, x, fx) ==
    IF VpcConfigInvalid(env)
    THEN Raise(fx, "ValueError", "create_hyperpod_cluster")
    ELSE IF get_orchestrator_type(env) # <<"SLURM">>
            /\ ~environ_truthy(env, <<"EKS_CLUSTER_ARN">>)
    THEN Raise(fx, "ValueError", "create_hyperpod_cluster")
    ELSE Bind(restricted_instance_groups(env, x, fx),
              LAMBDA restricted :
                  IF restricted.exc # "none" THEN restricted
                  ELSE Bind([restricted EXCEPT
                                !.create_params = CreateParams(env, restricted)],
                            LAMBDA assembled :
                                upload_cluster_template(env, x, assembled)))

\* the SLURM branch: the provisioning parameters are uploaded, then
\* InstanceGroupType is removed from the groups
slurm_prepared(env, x, fx) ==
    Bind(upload_slurm_provisioning_parameters_json(env, x, fx),
         LAMBDA uploaded :
             IF uploaded.exc # "none" THEN uploaded
             ELSE [uploaded EXCEPT !.instance_groups = WithoutInstanceGroupType(@)])

\* create_hyperpod_cluster(instance_groups), the argument being fx.instance_groups
create_hyperpod_cluster(env, x, fx) ==
    IF ClusterParametersInvalid(env)
    THEN Raise(fx, "ValueError", "create_hyperpod_cluster")
    ELSE Bind(IF get_orchestrator_type(env) = <<"SLURM">>
              THEN slurm_prepared(env, x, fx) ELSE fx,
              LAMBDA prepared :
                  IF prepared.exc # "none" THEN prepared
                  ELSE create_hyperpod_cluster_validated(env, x, prepared))

\* the exception leaves on_create without being handled
ReRaiseSwallowed(fx) == [fx EXCEPT !.exc = "none"]

\* except Exception as e: print(...); raise
ReRaise(fx) == fx

\* response_data as on_create returns it
ResponseData(cluster_info) ==
    [Status |-> <<"SUCCESS">>,
     Reason |-> <<"HyperPod cluster creation initiated successfully">>,
     ClusterName |-> cluster_info.ClusterName,
     TemplateUrl |-> cluster_info.TemplateUrl,
     ClusterStatus |-> <<"Creating">>,
     Message |-> <<"Cluster ">> \o cluster_info.ClusterName
                 \o <<" creation initiated">>]

\* if instance_groups:
\*     instance_groups = enrich_instance_groups(instance_groups, isRig=False)
on_create_enriched(env, x, fx, groups) ==
    IF groups = <<>> THEN fx
    ELSE Bind(enrich_instance_groups(env, groups, FALSE, x.lookup),
              LAMBDA e :
                  IF e.exc # "none"
                  THEN [Raise(AnswersLogged(fx, "on_create", e.describe_answers),
                              e.exc, "enrich_instance_groups")
                           EXCEPT !.instance_groups = e.groups]
                  ELSE [AnswersLogged(fx, "on_create", e.describe_answers)
                           EXCEPT !.instance_groups = e.groups])

\* on_create from  cluster_info = create_hyperpod_cluster(instance_groups)  on
on_create_cluster(env, x, fx) ==
    Bind(create_hyperpod_cluster(env, x, fx),
         LAMBDA created :
             IF created.exc # "none" THEN created
             ELSE [created EXCEPT !.response_data = ResponseData(@)])

\* the body of the try block of on_create
on_create_body(env, x) ==
    Bind(combine_settings(env, "INSTANCE_GROUP_SETTINGS"),
         LAMBDA c :
             IF c.exc # "none"
             THEN Raise([NoEffects EXCEPT !.combined = c], c.exc, "combine_settings")
             ELSE Bind(on_create_enriched(env, x, [NoEffects EXCEPT !.combined = c],
                                          GroupsOf(c.value)),
                       LAMBDA enriched :
                           IF enriched.exc # "none" THEN enriched
                           ELSE on_create_cluster(env, x, enriched)))

on_create(env, x) ==
    Bind(on_create_body(env, x),
         LAMBDA fx : IF fx.exc # "none" THEN ReRaise(fx) ELSE fx)

\* ", ".join(parts)
RECURSIVE PyJoin(_)
PyJoin(parts) ==
    IF parts = <<>> THEN <<>>
    ELSE IF Len(parts) = 1 THEN parts[1]
    ELSE parts[1] \o <<", ">> \o PyJoin(Tail(parts))

\* the handler around delete_object catches nothing: a ClientError other
\* than 404 leaves the block too
DeleteObjectClientErrorPropagates(fx, bucket, key, outcome) ==
    LET attempted == [fx EXCEPT !.s3_deletes =
                         Append(@, [Key |-> key, Outcome |-> outcome])]
    IN  IF outcome = "deleted"
        THEN [attempted EXCEPT !.deleted_files =
                 Append(@, <<"s3://">> \o bucket \o <<"/">> \o key)]
        ELSE IF outcome = "404" THEN attempted
        ELSE Raise(attempted, outcome, "on_delete")

\* try: s3.delete_object(Bucket=bucket, Key=key) ... except ClientError: the
\* call is answered with outcome; any other exception leaves the block
DeleteObject(fx, bucket, key, outcome) ==
    LET attempted == [fx EXCEPT !.s3_deletes =
                         Append(@, [Key |-> key, Outcome |-> outcome])]
    IN  IF outcome = "deleted"
        THEN [attempted EXCEPT !.deleted_files =
                 Append(@, <<"s3://">> \o bucket \o <<"/">> \o key)]
        ELSE IF outcome \in {"404", "ClientError"} THEN attempted
        ELSE Raise(attempted, outcome, "on_delete")

\* the outer  except Exception  of on_delete: a message instead of the exception
on_delete_returns(fx) ==
    IF fx.exc # "none"
    THEN [fx EXCEPT !.exc = "none", !.raised_in = "none",
                    !.response_data = [Message |-> <<"Error deleting files: ", fx.exc>>]]
    ELSE IF fx.deleted_files # <<>>
    THEN [fx EXCEPT !.response_data =
             [Message |-> <<"Successfully deleted files: ">> \o PyJoin(fx.deleted_files)]]
    ELSE [fx EXCEPT !.response_data = [Message |-> <<"No files found to delete">>]]

\* on_delete once the template file has been dealt with
on_delete_parameters(env, x, bucket, fx) ==
    IF fx.exc # "none" THEN on_delete_returns(fx)
    ELSE IF get_orchestrator_type(env) = <<"SLURM">>
    THEN Bind(DeleteObject(fx, bucket, params_key(env), x.delete_parameters),
              LAMBDA params_deleted : on_delete_returns(params_deleted))
    ELSE on_delete_returns(fx)

on_delete(env, x) ==
    LET bucket == environ_get(env, <<"S3_BUCKET_NAME">>)
    IN  IF ~x.s3_client
        THEN on_delete_returns(Raise(NoEffects, "BotoCoreError", "on_delete"))
        ELSE IF bucket = <<>>
        THEN [NoEffects EXCEPT !.response_data =
                 [Message |-> <<"S3 bucket name not provided, nothing to delete">>]]
        ELSE Bind(DeleteObject(NoEffects, bucket, template_key, x.delete_template),
                  LAMBDA template_deleted :
                      on_delete_parameters(env, x, bucket, template_deleted))

\* lambda_handler: raise ValueError(f"Unsupported request type: ...")
unsupported_request_type == Raise(NoEffects, "ValueError", "lambda_handler")

\* SUCCESS is sent whether or not the handler raised
responses_sent_always_success(fx) ==
    <<[Status |-> "SUCCESS", Data |-> fx.response_data]>>

\* lambda_handler once the request has been handled with the effects fx:
\* cfnresponse.send(event, context, SUCCESS, response_data), or in the except
\* block cfnresponse.send(event, context, FAILED, {'Reason': str(e)})
responses_sent(fx) ==
    IF fx.exc = "none"
    THEN <<[Status |-> "SUCCESS", Data |-> fx.response_data]>>
    ELSE <<[Status |-> "FAILED", Data |-> [Reason |-> <<fx.exc>>]]>>

-----------------------------------------------------------------------------
(* The Lambda process: one invocation after the other *)

\* what describe_subnets can answer a call with: it raises, or it lists the
\* requested subnets in some order
LookupAnswers(env) ==
    IF private_subnet_ids(env) = <<>> THEN {NoLookup}
    ELSE {NoLookup} \cup
         { [ok |-> TRUE, subnets |-> r] :
               r \in DescribeSubnetsResponses(private_subnet_ids(env)) }

DeleteOutcomes == {"deleted", "404", "ClientError", "EndpointConnectionError"}

NoAnswers ==
    [s3_client |-> TRUE, lookup |-> NoLookup, rig_lookup |-> NoLookup,
     put_parameters |-> TRUE, put_template |-> TRUE,
     delete_template |-> "deleted", delete_parameters |-> "deleted"]

\* what the services answer the calls of one Create or Update with; when
\* boto3.client('s3') raises, no put_object is answered
CreateAnswers(env) ==
    { [NoAnswers EXCEPT !.s3_client = s3[1], !.lookup = lookup,
                        !.rig_lookup = rig_lookup,
                        !.put_parameters = s3[2], !.put_template = s3[3]] :
        lookup \in LookupAnswers(env),
        rig_lookup \in LookupAnswers(env),
        s3 \in { <<FALSE, TRUE, TRUE>> } \cup
               { <<TRUE, a, b>> :
                     a \in IF get_orchestrator_type(env) = <<"SLURM">>
                           THEN BOOLEAN ELSE {TRUE},
                     b \in BOOLEAN } }

\* what the services answer the calls of one Delete with
DeleteAnswers(env) ==
    { [NoAnswers EXCEPT !.s3_client = FALSE] } \cup
    { [NoAnswers EXCEPT !.delete_template = a, !.delete_parameters = b] :
        a \in DeleteOutcomes,
        b \in IF get_orchestrator_type(env) = <<"SLURM">> THEN DeleteOutcomes
              ELSE {"deleted"} }

\* one invocation of lambda_handler, from the event to the response, the
\* request being handled with the effects fx
Invoked(fx) ==
    /\ invocations' = invocations + 1
    /\ cfn_sent' = responses_sent(fx)
    /\ handler_exc' = [exc |-> fx.exc, raised_in |-> fx.raised_in]
    /\ create_params' = fx.create_params
    /\ template_generated' = fx.template_generated
    /\ s3_puts' = fx.s3_puts
    /\ s3_deletes' = fx.s3_deletes
    /\ describe_answers' = fx.describe_answers
    /\ UNCHANGED <<environ, other_lambda_vars, pc, call_site, settings_prefix, enrich_vars>>

\* if request_type == 'Create': response_data = on_create(event)
handle_create ==
    /\ invocations < MaxInvocations
    /\ request_type' = "Create"
    /\ \E x \in CreateAnswers(environ) : \E fx \in {on_create(environ, x)} :
          Invoked(fx) /\ combined' = fx.combined

\* elif request_type == 'Update': response_data = on_create(event)
handle_update ==
    /\ invocations < MaxInvocations
    /\ request_type' = "Update"
    /\ \E x \in CreateAnswers(environ) : \E fx \in {on_create(environ, x)} :
          Invoked(fx) /\ combined' = fx.combined

\* elif request_type == 'Delete': response_data = on_delete(event)
handle_delete ==
    /\ invocations < MaxInvocations
    /\ request_type' = "Delete"
    /\ \E x \in DeleteAnswers(environ) : \E fx \in {on_delete(environ, x)} :
          Invoked(fx) /\ UNCHANGED combined

\* values of RequestType that lambda_handler has no branch for
UnsupportedRequestTypes == {"Replace", ""}

\* else: raise ValueError(f"Unsupported request type: {request_type}")
handle_unsupported ==
    /\ invocations < MaxInvocations
    /\ request_type' \in UnsupportedRequestTypes
    /\ Invoked(unsupported_request_type)
    /\ UNCHANGED combined

\* the configuration of a deployment that creates a cluster
BaseEnviron ==
    (<<"HYPER_POD_CLUSTER_NAME">> :> <<"cluster">>)
    @@ (<<"NODE_RECOVERY">> :> <<"Automatic">>)
    @@ (<<"EKS_CLUSTER_ARN">> :> <<"arn:eks">>)
    @@ (<<"S3_BUCKET_NAME">> :> <<"bucket">>)
    @@ (<<"ON_CREATE_PATH">> :> <<"scripts", "/", "on_create.sh">>)
    @@ (<<"SAGEMAKER_IAM_ROLE_NAME">> :> <<"role">>)
    @@ (<<"NUMBER_OF_INSTANCE_GROUPS">> :> <<"2">>)
    @@ (<<"SECURITY_GROUP_IDS">> :> <<"sg-1">>)
    @@ (<<"PRIVATE_SUBNET_IDS">> :> <<"SubnetA", ",", "SubnetB">>)

\* the ways a deployment departs from it, one variable at a time
Departures ==
    { (<<"HYPER_POD_CLUSTER_NAME">> :> Unset),
      (<<"NODE_RECOVERY">> :> Unset),
      (<<"NODE_RECOVERY">> :> <<"Sometimes">>),
      (<<"EKS_CLUSTER_ARN">> :> Unset),
      (<<"S3_BUCKET_NAME">> :> Unset),
      (<<"ON_CREATE_PATH">> :> <<"on_create.sh">>),
      (<<"CLUSTER_TAGS">> :> <<"Environment", "=", "Production", ",", " ", "Team", "=", "MLOps">>),
      (<<"CLUSTER_TAGS">> :> <<"[", "ObjTag", "]">>),
      (<<"NODE_PROVISIONING_MODE">> :> <<"Continuous">>),
      (<<"NUMBER_OF_INSTANCE_GROUPS">> :> Unset),
      (<<"NUMBER_OF_INSTANCE_GROUPS">> :> <<"1">>),
      (<<"NUMBER_OF_INSTANCE_GROUPS">> :> <<"many">>),
      (<<"ENABLED_FSX">> :> <<"True">>) }

\* the fragments INSTANCE_GROUP_SETTINGS1, INSTANCE_GROUP_SETTINGS2 and
\* RIG_SETTINGS1 of a deployment
HandlerFragments ==
    { <<Unset, Unset, Unset>>,
      << <<"[", "ObjA", "]">>, Unset, Unset >>,
      << <<"[", "ObjA", "]">>, <<"[", "ObjA", "]">>, Unset >>,
      << <<"[", "ObjA", "]">>, <<"[", "ObjB", ",", "ObjT", "]">>, Unset >>,
      << <<"[", "ObjA", "]">>, <<"{not json">>, <<"[", "ObjR", "]">> >>,
      << <<"[", "ObjA", "]">>, Unset, <<"[", "ObjR", ",", "ObjRT", "]">> >>,
      << <<"[", "ObjT", "]">>, <<"[", "ObjB", ",", "ObjT", "]">>,
         <<"[", "ObjR", ",", "ObjRT", "]">> >>,
      << <<"[", "ObjC", ",", "ObjW", "]">>, Unset, Unset >>,
      << <<"[", "ObjC", ",", "ObjW", "]">>, <<"[", "ObjA", "]">>, Unset >>,
      << <<"[", "ObjC", ",", "ObjW", "]">>, Unset, <<"[", "ObjR", ",", "ObjRT", "]">> >>,
      << <<"[", "ObjW2", ",", "ObjC", "]">>, <<"[", "ObjW", ",", "ObjL", "]">>, Unset >>,
      << <<"[", "ObjC", ",", "ObjL", "]">>, <<"[", "ObjL", "]">>, Unset >>,
      << <<"[", "ObjC", ",", "ObjW", "]">>, <<"[", "ObjC", "]">>,
         <<"[", "ObjR", "]">> >> }

\* the fragments the departures are tried with
DepartureFragments ==
    { << <<"[", "ObjA", "]">>, <<"[", "ObjB", ",", "ObjT", "]">>, Unset >>,
      << <<"[", "ObjC", ",", "ObjW", "]">>, Unset, <<"[", "ObjR", "]">> >> }

WithFragments(f) ==
    (<<"INSTANCE_GROUP_SETTINGS", "1">> :> f[1])
    @@ (<<"INSTANCE_GROUP_SETTINGS", "2">> :> f[2])
    @@ (<<"RIG_SETTINGS", "1">> :> f[3])

HandlerEnvirons ==
    { EnvOf(WithFragments(f)
            @@ (<<"SECURITY_GROUP_IDS">> :> sgs)
            @@ (<<"PRIVATE_SUBNET_IDS">> :> subnets)
            @@ (<<"ORCHESTRATOR_TYPE">> :> orchestrator)
            @@ BaseEnviron) :
        f \in HandlerFragments,
        sgs \in { Unset, <<"sg-1">> },
        subnets \in { Unset, <<"SubnetA">>, <<"SubnetA", ",", "SubnetB">> },
        orchestrator \in { Unset, <<"SLURM">> } }
    \cup
    { EnvOf(departure @@ WithFragments(f)
            @@ (<<"ORCHESTRATOR_TYPE">> :> orchestrator) @@ BaseEnviron) :
        departure \in Departures, f \in DepartureFragments,
        orchestrator \in { Unset, <<"SLURM">> } }

InitHandler ==
    /\ environ \in HandlerEnvirons
    /\ pc = "handler"
    /\ call_site = "none"
    /\ CombineIdle
    /\ EnrichIdle
    /\ HandlerIdle
    /\ OtherLambdasIdle

NextHandler ==
    \/ handle_create
    \/ handle_update
    \/ handle_delete
    \/ handle_unsupported

SpecHandler == InitHandler /\ [][NextHandler]_vars

-----------------------------------------------------------------------------
(* Properties of combine_settings, checked under SpecCombine *)

CombineDone == pc \in {"combine_returned", "combine_raised"}

\* the N of the running call, when NUMBER_OF_INSTANCE_GROUPS is unset or a number
NumGroupsValid == num_groups(environ).exc = "none"

N == num_groups(environ).value

FragmentKey(i) == SettingKey(settings_prefix, i)

Present(i) == FragmentKey(i) \in DOMAIN environ

\* fragment i is a JSON array
IsJsonArray(i) ==
    /\ Present(i)
    /\ json_loads(environ[FragmentKey(i)]).exc = "none"
    /\ json_loads(environ[FragmentKey(i)]).value.type = "list"

ArrayItems(i) == json_loads(environ[FragmentKey(i)]).value.items

\* the number of elements an item stands for once flattened one level
ItemCount(item) == IF item.type = "list" THEN Len(item.items) ELSE 1

RECURSIVE FlatCount(_)
FlatCount(items) ==
    IF items = <<>> THEN 0 ELSE ItemCount(Head(items)) + FlatCount(Tail(items))

\* the p-th element, in position order, of items flattened one level
RECURSIVE FlatItem(_, _)
FlatItem(items, p) ==
    IF p <= ItemCount(Head(items))
    THEN IF Head(items).type = "list" THEN Head(items).items[p] ELSE Head(items)
    ELSE FlatItem(Tail(items), p - ItemCount(Head(items)))

FragmentCount(i) == IF Present(i) THEN FlatCount(ArrayItems(i)) ELSE 0

\* the number of elements the fragments before index i stand for
RECURSIVE Offset(_)
Offset(i) == IF i <= 1 THEN 0 ELSE Offset(i - 1) + FragmentCount(i - 1)

\* C1: when every fragment that is set among {prefix}1..{prefix}N is a JSON
\* array, combine_settings returns the one-level-flattened elements of the
\* fragments in index order and, within a fragment, in position order: the
\* length is the sum of the flattened counts and the p-th flattened element of
\* fragment i sits at the offset of fragment i plus p.
C1_ConcatenationInIndexOrder ==
    (CombineDone /\ NumGroupsValid /\ \A i \in 1..N : Present(i) => IsJsonArray(i))
    => /\ combined.exc = "none"
       /\ Len(combined.value) = Offset(N + 1)
       /\ \A i \in 1..N : \A p \in 1..FragmentCount(i) :
              combined.value[Offset(i) + p] = FlatItem(ArrayItems(i), p)

\* two fragments are arrays, one of them holds a nested list, and the call
\* has returned their four elements
C1_Witness ==
    /\ CombineDone /\ NumGroupsValid
    /\ \A i \in 1..N : Present(i) => IsJsonArray(i)
    /\ N >= 2
    /\ Present(1) /\ environ[FragmentKey(1)] = <<"[", "[", "ObjB", "]", ",", "ObjA", "]">>
    /\ Present(2) /\ environ[FragmentKey(2)] = <<"[", "ObjA", ",", "ObjB", "]">>
    /\ Len(combined.value) = 4

\* os.environ without the variables {prefix}i, i in S
WithoutFragments(S) ==
    [k \in DOMAIN environ \ {FragmentKey(i) : i \in S} |-> environ[k]]

\* fragment i is set and is malformed JSON or JSON that is no array
MalformedOrNotArray(i) == Present(i) /\ ~IsJsonArray(i)

\* C6: a fragment that is malformed JSON, or JSON whose top-level value is no
\* array, is skipped without raising: the call returns what it returns with
\* that fragment unset.
C6_MalformedFragmentSkipped ==
    (CombineDone /\ NumGroupsValid)
    => \A i \in 1..N :
           MalformedOrNotArray(i)
           => /\ combined.exc = "none"
              /\ combined = combine_settings(WithoutFragments({i}), settings_prefix)

\* a malformed fragment sits between two arrays and the call has returned the
\* elements of both
C6_Witness ==
    /\ CombineDone /\ NumGroupsValid /\ N >= 3
    /\ Present(1) /\ environ[FragmentKey(1)] = <<"[", "ObjA", "]">>
    /\ Present(2) /\ environ[FragmentKey(2)] = <<"{not json">>
    /\ Present(3) /\ environ[FragmentKey(3)] = <<"[", "ObjA", ",", "ObjB", "]">>
    /\ combined = [exc |-> "none",
                   value |-> <<PyDict(JsonObjects["ObjA"]), PyDict(JsonObjects["ObjA"]),
                               PyDict(JsonObjects["ObjB"])>>]

\* fragment i is absent, the empty string or the literal "[]"
AbsentOrEmpty(i) ==
    Present(i) => environ[FragmentKey(i)] \in { <<>>, <<"[", "]">> }

\* C7: a fragment that is absent, the empty string or the literal "[]" does
\* not make the call raise and contributes no element: the call returns what
\* it returns with every such fragment unset, and returns the empty list when
\* all of {prefix}1..{prefix}N are such fragments.
C7_AbsentOrEmptyFragment ==
    (CombineDone /\ NumGroupsValid /\ \E i \in 1..N : AbsentOrEmpty(i))
    => /\ combined.exc = "none"
       /\ combined = combine_settings(
              WithoutFragments({i \in 1..N : AbsentOrEmpty(i)}), settings_prefix)
       /\ (\A i \in 1..N : AbsentOrEmpty(i)) => combined.value = <<>>

\* {prefix}1 is "[]", {prefix}2 is unset, {prefix}3 holds one element, and the
\* call has returned that element alone
C7_Witness ==
    /\ CombineDone /\ NumGroupsValid /\ N >= 3
    /\ Present(1) /\ environ[FragmentKey(1)] = <<"[", "]">>
    /\ ~Present(2)
    /\ Present(3) /\ environ[FragmentKey(3)] = <<"[", "ObjA", "]">>
    /\ combined = [exc |-> "none", value |-> <<PyDict(JsonObjects["ObjA"])>>]

-----------------------------------------------------------------------------
(* Properties of enrich_instance_groups, checked under SpecEnrich *)

Returned == pc = "enrich_returned"

Raised == pc = "enrich_raised"

Positions == 1..Len(groups_in)

HadTargetAz(k) == "TargetAvailabilityZoneId" \in DOMAIN groups_in[k]

HadOverrideVpcConfig(k) == "OverrideVpcConfig" \in DOMAIN groups_in[k]

ConfiguredSecurityGroups == security_group_ids(environ)

\* the mapping holds a subnet of AZ z
AzResolvable(z) ==
    \E j \in 1..Len(subnet_to_az_mapping) : subnet_to_az_mapping[j][2] = z

\* s is the first subnet of AZ z in the iteration order of the mapping
FirstSubnetOf(z, s) ==
    \E j \in 1..Len(subnet_to_az_mapping) :
        /\ subnet_to_az_mapping[j] = <<s, z>>
        /\ \A h \in 1..(j - 1) : subnet_to_az_mapping[h][2] # z

\* C2: the list enrich_instance_groups returns has no group with the key
\* TargetAvailabilityZoneId, whether its AZ was resolved or not.
C2_TargetAzNeverReturned ==
    Returned
    => \A k \in 1..Len(instance_groups) :
           "TargetAvailabilityZoneId" \notin DOMAIN instance_groups[k]

\* the call has returned a list of two AZ-targeted groups, the first resolved
\* to a subnet and the second with no subnet in its AZ
C2_Witness ==
    /\ Returned
    /\ Len(groups_in) = 2
    /\ HadTargetAz(1) /\ AzResolvable(groups_in[1]["TargetAvailabilityZoneId"])
    /\ HadTargetAz(2) /\ ~AzResolvable(groups_in[2]["TargetAvailabilityZoneId"])

\* C3: with a non-empty mapping and a non-empty security-group list, a group
\* that carried TargetAvailabilityZoneId = z for which the mapping has a subnet
\* comes back with OverrideVpcConfig.Subnets = [s], s the first subnet of z in
\* mapping order; a group that had no OverrideVpcConfig comes back with exactly
\* {SecurityGroupIds: <configured list>, Subnets: [s]}.
C3_FirstSubnetOfTargetAz ==
    (Returned /\ subnet_to_az_mapping # <<>> /\ ConfiguredSecurityGroups # <<>>)
    => \A k \in Positions :
           (HadTargetAz(k) /\ AzResolvable(groups_in[k]["TargetAvailabilityZoneId"]))
           => /\ "OverrideVpcConfig" \in DOMAIN instance_groups[k]
              /\ "Subnets" \in DOMAIN instance_groups[k]["OverrideVpcConfig"]
              /\ Len(instance_groups[k]["OverrideVpcConfig"]["Subnets"]) = 1
              /\ FirstSubnetOf(groups_in[k]["TargetAvailabilityZoneId"],
                               instance_groups[k]["OverrideVpcConfig"]["Subnets"][1])
              /\ ~HadOverrideVpcConfig(k)
                 => \E s \in {subnet_to_az_mapping[j][1] :
                                 j \in 1..Len(subnet_to_az_mapping)} :
                        /\ FirstSubnetOf(groups_in[k]["TargetAvailabilityZoneId"], s)
                        /\ instance_groups[k]["OverrideVpcConfig"] =
                               [SecurityGroupIds |-> ConfiguredSecurityGroups,
                                Subnets |-> <<s>>]

\* the documented example has returned: target az1, mapping {SubnetA: az2,
\* SubnetB: az1}, security groups [sg-1]
C3_Witness ==
    /\ Returned
    /\ groups_in[1] = [InstanceGroupName |-> <<"group-", "1">>,
                       TargetAvailabilityZoneId |-> <<"az1">>]
    /\ subnet_to_az_mapping = << << <<"SubnetA">>, <<"az2">> >>,
                                 << <<"SubnetB">>, <<"az1">> >> >>
    /\ ConfiguredSecurityGroups = << <<"sg-1">> >>
    /\ "OverrideVpcConfig" \in DOMAIN instance_groups[1]
    /\ instance_groups[1]["OverrideVpcConfig"] =
           [SecurityGroupIds |-> << <<"sg-1">> >>, Subnets |-> << <<"SubnetB">> >>]

\* C4: when a group of the list carries TargetAvailabilityZoneId and the
\* mapping or the configured security-group list is empty, the call does not
\* return a list: it ends with the configuration error (ValueError), raised at
\* the first group that carries the key.
C4_ConfigurationErrorRaised ==
    /\ Returned
       => ~(has_target_az(groups_in)
            /\ (subnet_to_az_mapping = <<>> \/ ConfiguredSecurityGroups = <<>>))
    /\ (pc = "enrich_loop" /\ idx = Len(instance_groups))
       => ~(has_target_az(groups_in)
            /\ (subnet_to_az_mapping = <<>> \/ ConfiguredSecurityGroups = <<>>))
    /\ Raised
       => /\ enrich_exc = "ValueError"
          /\ HadTargetAz(idx + 1)
          /\ \A k \in 1..idx : ~HadTargetAz(k)
          /\ (subnet_to_az_mapping = <<>> \/ ConfiguredSecurityGroups = <<>>)

\* the second group carries the key, no subnet is configured, and the call
\* has raised after enriching the first group
C4_Witness ==
    /\ Raised /\ enrich_exc = "ValueError"
    /\ idx = 1 /\ HadTargetAz(2) /\ ~HadTargetAz(1)
    /\ private_subnet_ids(environ) = <<>>
    /\ ConfiguredSecurityGroups # <<>>
    /\ describe_calls = 0


\* C5 as stated: when the subnet-description call fails, enrichment does not
\* abort and the AZ-targeted groups are skipped with a warning.
C5_LookupFailureDoesNotAbort ==
    describe_failed => ~Raised

\* C5 as amended: when the subnet-description call fails, its exception is
\* caught and the mapping is left empty, but enrichment then aborts: the call
\* never returns a list, it ends with the configuration error (ValueError) at
\* the first group that carries TargetAvailabilityZoneId, and no group has had
\* that key removed.
C5_LookupFailureEndsInConfigurationError ==
    describe_failed
    => /\ subnet_to_az_mapping = <<>>
       /\ ~Returned
       /\ ~(pc = "enrich_loop" /\ idx = Len(instance_groups))
       /\ \A k \in Positions :
              HadTargetAz(k) => "TargetAvailabilityZoneId" \in DOMAIN instance_groups[k]
       /\ Raised
          => /\ enrich_exc = "ValueError"
             /\ HadTargetAz(idx + 1)
             /\ \A k \in 1..idx : ~HadTargetAz(k)

\* the lookup failed with subnets and security groups configured, the first
\* group was enriched and the call raised at the second, AZ-targeted group
C5_Witness ==
    /\ describe_failed /\ describe_calls = 1
    /\ Raised /\ enrich_exc = "ValueError"
    /\ private_subnet_ids(environ) # <<>>
    /\ ConfiguredSecurityGroups # <<>>
    /\ idx = 1 /\ HadTargetAz(2)
    /\ "TargetAvailabilityZoneId" \in DOMAIN instance_groups[2]

HadLifeCycleConfig(k) == "LifeCycleConfig" \in DOMAIN groups_in[k]

ScriptConfigured ==
    environ_truthy(environ, <<"S3_BUCKET_NAME">>)
    /\ environ_truthy(environ, <<"ON_CREATE_PATH">>)

\* C8: a group that has LifeCycleConfig on entry keeps it with the value it
\* had, at every point of the call, also when S3_BUCKET_NAME and
\* ON_CREATE_PATH are both configured.
C8_ExistingLifeCycleConfigKept ==
    \A k \in Positions :
        HadLifeCycleConfig(k)
        => /\ "LifeCycleConfig" \in DOMAIN instance_groups[k]
           /\ instance_groups[k]["LifeCycleConfig"] = groups_in[k]["LifeCycleConfig"]

\* a non-restricted call has returned with bucket and script path configured
\* and the first group still has the LifeCycleConfig it came with
C8_Witness ==
    /\ Returned /\ ~isRig /\ ScriptConfigured
    /\ HadLifeCycleConfig(1)
    /\ instance_groups[1]["LifeCycleConfig"] = OwnLifeCycleConfig

\* C9: in a call with isRig = true, and so in the call create_hyperpod_cluster
\* makes for the restricted groups, a group that had no LifeCycleConfig on
\* entry has none at any point of the call, whatever the bucket and script
\* path configuration.
C9_RestrictedGroupsGetNoLifeCycleConfig ==
    (isRig \/ call_site = "create_hyperpod_cluster")
    => \A k \in Positions :
           ~HadLifeCycleConfig(k) => "LifeCycleConfig" \notin DOMAIN instance_groups[k]

\* the call create_hyperpod_cluster makes has returned with bucket and script
\* path configured, and the first group, which had no LifeCycleConfig, has
\* none
C9_Witness ==
    /\ Returned /\ call_site = "create_hyperpod_cluster" /\ isRig
    /\ ScriptConfigured
    /\ ~HadLifeCycleConfig(1)
    /\ "LifeCycleConfig" \notin DOMAIN instance_groups[1]

HadSecurityGroupIds(k) ==
    HadOverrideVpcConfig(k) /\ "SecurityGroupIds" \in DOMAIN groups_in[k]["OverrideVpcConfig"]

\* C10: a group whose OverrideVpcConfig has SecurityGroupIds on entry keeps
\* that value at every point of the call; where the output has a
\* SecurityGroupIds the input lacked, it is the configured security-group list.
C10_ExistingSecurityGroupIdsKept ==
    \A k \in Positions :
        /\ HadSecurityGroupIds(k)
           => /\ "OverrideVpcConfig" \in DOMAIN instance_groups[k]
              /\ "SecurityGroupIds" \in DOMAIN instance_groups[k]["OverrideVpcConfig"]
              /\ instance_groups[k]["OverrideVpcConfig"]["SecurityGroupIds"]
                     = groups_in[k]["OverrideVpcConfig"]["SecurityGroupIds"]
        /\ (/\ ~HadSecurityGroupIds(k)
            /\ "OverrideVpcConfig" \in DOMAIN instance_groups[k]
            /\ "SecurityGroupIds" \in DOMAIN instance_groups[k]["OverrideVpcConfig"])
           => instance_groups[k]["OverrideVpcConfig"]["SecurityGroupIds"]
                  = ConfiguredSecurityGroups

\* a group that came with its own SecurityGroupIds and a target AZ has been
\* resolved to a subnet, the configured list differs from its own, and its
\* SecurityGroupIds is still its own
C10_Witness ==
    /\ Returned
    /\ HadSecurityGroupIds(1) /\ HadTargetAz(1)
    /\ AzResolvable(groups_in[1]["TargetAvailabilityZoneId"])
    /\ ConfiguredSecurityGroups = << <<"sg-1">> >>
    /\ instance_groups[1]["OverrideVpcConfig"]["SecurityGroupIds"] = << <<"sg-own">> >>
    /\ instance_groups[1]["OverrideVpcConfig"]["Subnets"] # << <<"subnet-own">> >>

\* the k-th input group as one iteration of the loop leaves it
EnrichmentOf(k) ==
    enrich_instance_group(environ, groups_in[k], isRig, subnet_to_az_mapping).group

\* C11: whenever enrich_instance_groups returns, the returned list has the
\* length of the input list and its k-th element is the enrichment of the k-th
\* input group, with the InstanceGroupName of that group: no group is added,
\* removed or re-ordered.
C11_SameOrderSameCardinality ==
    Returned
    => /\ Len(instance_groups) = Len(groups_in)
       /\ \A k \in Positions :
              /\ instance_groups[k] = EnrichmentOf(k)
              /\ instance_groups[k]["InstanceGroupName"] = groups_in[k]["InstanceGroupName"]

\* a list of two groups has returned, both changed by the call, each still at
\* its position
C11_Witness ==
    /\ Returned
    /\ Len(groups_in) = 2
    /\ instance_groups[1] # groups_in[1]
    /\ instance_groups[2] # groups_in[2]
    /\ instance_groups[1]["InstanceGroupName"] = <<"group-", "1">>
    /\ instance_groups[2]["InstanceGroupName"] = <<"group-", "2">>

-----------------------------------------------------------------------------
(* Properties of lambda_handler, checked under SpecHandler *)

CreateOrUpdate == request_type \in {"Create", "Update"}

\* the elements fragment {prefix}i stands for, flattened one level
FragmentElements(prefix, i) ==
    LET key == SettingKey(prefix, i)
        parsed == json_loads(environ[key])
    IN  IF key \in DOMAIN environ /\ parsed.exc = "none" /\ parsed.value.type = "list"
        THEN [p \in 1..FlatCount(parsed.value.items) |-> FlatItem(parsed.value.items, p)]
        ELSE <<>>

RECURSIVE ElementsUpTo(_, _)
ElementsUpTo(prefix, i) ==
    IF i <= 0 THEN <<>>
    ELSE ElementsUpTo(prefix, i - 1) \o FragmentElements(prefix, i)

\* the groups the environment variables of this invocation configure
ConfiguredGroups(prefix) ==
    IF NumGroupsValid
    THEN LET elements == ElementsUpTo(prefix, N)
         IN  [k \in 1..Len(elements) |-> elements[k].d]
    ELSE <<>>

\* the mapping the call made from site got from describe_subnets in this
\* invocation; empty when no call was answered
MappingFor(site) ==
    IF \E j \in 1..Len(describe_answers) :
           describe_answers[j].call_site = site /\ describe_answers[j].answer.ok
    THEN MappingFromResponse(<<>>,
             describe_answers[CHOOSE j \in 1..Len(describe_answers) :
                 describe_answers[j].call_site = site].answer.subnets)
    ELSE <<>>

\* a group under prefix asks for an AZ while the mapping of the call made
\* from site or the security-group list is empty
AzTargetingMisconfigured(prefix, site) ==
    /\ \E k \in 1..Len(ConfiguredGroups(prefix)) :
           "TargetAvailabilityZoneId" \in DOMAIN ConfiguredGroups(prefix)[k]
    /\ MappingFor(site) = <<>> \/ ConfiguredSecurityGroups = <<>>

TemplateUploaded == \E j \in 1..Len(s3_puts) : s3_puts[j].Key = template_key

FailedSent == Len(cfn_sent) = 1 /\ cfn_sent[1].Status = "FAILED"

\* C12: a Create or Update in which an instance group or a restricted
\* instance group asks for an AZ without a mapping or without security groups
\* ends with a FAILED response, and the cluster template is neither generated
\* nor uploaded, whatever the other groups are.
C12_ConfigurationErrorFailsRequest ==
    (/\ CreateOrUpdate
     /\ \/ AzTargetingMisconfigured("INSTANCE_GROUP_SETTINGS", "on_create")
        \/ AzTargetingMisconfigured("RIG_SETTINGS", "create_hyperpod_cluster"))
    => /\ FailedSent
       /\ ~template_generated
       /\ ~TemplateUploaded
       /\ create_params = <<>>

\* an Update whose instance groups are all valid and whose second restricted
\* group asks for an AZ has ended FAILED: the lookup made for the restricted
\* groups failed and enrich_instance_groups raised the configuration error
C12_Witness ==
    /\ request_type = "Update"
    /\ Len(ConfiguredGroups("INSTANCE_GROUP_SETTINGS")) = 1
    /\ ~AzTargetingMisconfigured("INSTANCE_GROUP_SETTINGS", "on_create")
    /\ Len(ConfiguredGroups("RIG_SETTINGS")) = 2
    /\ AzTargetingMisconfigured("RIG_SETTINGS", "create_hyperpod_cluster")
    /\ ConfiguredSecurityGroups # <<>>
    /\ \E j \in 1..Len(describe_answers) :
           describe_answers[j].call_site = "create_hyperpod_cluster"
    /\ handler_exc = [exc |-> "ValueError", raised_in |-> "enrich_instance_groups"]
    /\ FailedSent

InstanceGroupsOf(params, key) == IF key \in DOMAIN params THEN params[key] ELSE <<>>

NamesOf(groups) == [k \in 1..Len(groups) |-> groups[k]["InstanceGroupName"]]

Unique(names) ==
    \A i, j \in 1..Len(names) : i # j => names[i] # names[j]

\* C13 as stated: no two groups of the list embedded in the payload have the
\* same InstanceGroupName.
C13_NamesUnique ==
    (CreateOrUpdate /\ template_generated)
    => Unique(NamesOf(InstanceGroupsOf(create_params, "InstanceGroups")))

\* C13 as amended: the list embedded in the payload carries, position by
\* position, the InstanceGroupName of the elements of the fragments, none
\* dropped and none merged; so the names are unique in the payload when they
\* are unique across the fragments, and a name the fragments repeat is
\* repeated in the payload.
C13_NamesAsConfigured ==
    (CreateOrUpdate /\ template_generated)
    => /\ NamesOf(InstanceGroupsOf(create_params, "InstanceGroups"))
              = NamesOf(ConfiguredGroups("INSTANCE_GROUP_SETTINGS"))
       /\ NamesOf(InstanceGroupsOf(create_params, "RestrictedInstanceGroups"))
              = NamesOf(ConfiguredGroups("RIG_SETTINGS"))
       /\ Unique(NamesOf(ConfiguredGroups("INSTANCE_GROUP_SETTINGS")))
          => Unique(NamesOf(InstanceGroupsOf(create_params, "InstanceGroups")))

\* two fragments each hold a group named A, and the payload of the template
\* lists both
C13_Witness ==
    /\ CreateOrUpdate /\ template_generated
    /\ NamesOf(InstanceGroupsOf(create_params, "InstanceGroups")) = << <<"A">>, <<"A">> >>

\* the list the code builds from scratch out of the groups under prefix
FreshList(prefix, is_rig, site) ==
    [k \in 1..Len(ConfiguredGroups(prefix)) |->
        enrich_instance_group(environ, ConfiguredGroups(prefix)[k], is_rig,
                              MappingFor(site)).group]

\* InstanceGroupType is removed from the groups in SLURM mode
AsEmbedded(groups) ==
    IF get_orchestrator_type(environ) = <<"SLURM">>
    THEN [k \in 1..Len(groups) |->
             [key \in DOMAIN groups[k] \ {"InstanceGroupType"} |-> groups[k][key]]]
    ELSE groups

\* C14: whatever invocations the process served before, the list a Create or
\* Update aggregates is the elements of the fragments as the environment
\* holds them at that invocation, and the lists embedded in its payload are
\* those elements enriched under that environment and the subnet answers of
\* that invocation: no group and no enrichment of an earlier invocation is
\* in them.
C14_ListBuiltFresh ==
    /\ (CreateOrUpdate /\ NumGroupsValid)
       => combined.value = ElementsUpTo("INSTANCE_GROUP_SETTINGS", N)
    /\ (CreateOrUpdate /\ template_generated)
       => /\ InstanceGroupsOf(create_params, "InstanceGroups")
                 = AsEmbedded(FreshList("INSTANCE_GROUP_SETTINGS", FALSE, "on_create"))
          /\ InstanceGroupsOf(create_params, "RestrictedInstanceGroups")
                 = FreshList("RIG_SETTINGS", TRUE, "create_hyperpod_cluster")

\* the second invocation of the process is a Create that has generated the
\* template with three instance groups, one of them resolved to a subnet
C14_Witness ==
    /\ invocations = 2 /\ request_type = "Create" /\ template_generated
    /\ Len(InstanceGroupsOf(create_params, "InstanceGroups")) = 3
    /\ \E k \in 1..3 :
           /\ create_params["InstanceGroups"][k]["InstanceGroupName"] = <<"T">>
           /\ "OverrideVpcConfig" \in DOMAIN create_params["InstanceGroups"][k]

-----------------------------------------------------------------------------
(* Further properties of enrich_instance_groups, checked under SpecEnrich *)

HasSlash(path) == \E j \in 1..Len(path) : path[j] = "/"

\* the position of the last '/' of path
LastSlash(path) ==
    CHOOSE j \in 1..Len(path) :
        path[j] = "/" /\ \A h \in (j + 1)..Len(path) : path[h] # "/"

\* {SourceS3Uri: "s3://B/" + dirname(P), OnCreate: basename(P)}, and
\* {SourceS3Uri: "s3://B", OnCreate: P} for a path without '/'
ScriptLocation(B, P) ==
    IF HasSlash(P)
    THEN [SourceS3Uri |-> <<"s3://">> \o B \o <<"/">> \o SubSeq(P, 1, LastSlash(P) - 1),
          OnCreate |-> SubSeq(P, LastSlash(P) + 1, Len(P))]
    ELSE [SourceS3Uri |-> <<"s3://">> \o B, OnCreate |-> P]

\* C15: when a non-restricted call returns with bucket B and script path P
\* configured, every group that came without LifeCycleConfig has
\* LifeCycleConfig = {SourceS3Uri: "s3://B/" + the part of P before its last
\* '/', OnCreate: the part after it}, and {SourceS3Uri: "s3://B", OnCreate: P}
\* when P has no '/'.
C15_LifeCycleConfigFromLastSlash ==
    (Returned /\ ~isRig /\ ScriptConfigured)
    => \A k \in Positions :
           ~HadLifeCycleConfig(k)
           => /\ "LifeCycleConfig" \in DOMAIN instance_groups[k]
              /\ instance_groups[k]["LifeCycleConfig"]
                     = ScriptLocation(environ[<<"S3_BUCKET_NAME">>],
                                      environ[<<"ON_CREATE_PATH">>])

\* the script path has two '/' and the first group, which came without
\* LifeCycleConfig, has the directory up to the second one in SourceS3Uri
C15_Witness ==
    /\ Returned /\ ~isRig /\ ~HadLifeCycleConfig(1)
    /\ environ_get(environ, <<"ON_CREATE_PATH">>)
           = <<"scripts", "/", "v1", "/", "on_create.sh">>
    /\ instance_groups[1]["LifeCycleConfig"]
           = [SourceS3Uri |-> <<"s3://", "bucket", "/", "scripts", "/", "v1">>,
              OnCreate |-> <<"on_create.sh">>]

HadSubnets(k) ==
    HadOverrideVpcConfig(k) /\ "Subnets" \in DOMAIN groups_in[k]["OverrideVpcConfig"]

\* the k-th group asks for an AZ that no subnet of the non-empty mapping is
\* in, and security groups are configured
AzNotFound(k) ==
    /\ HadTargetAz(k)
    /\ subnet_to_az_mapping # <<>>
    /\ ConfiguredSecurityGroups # <<>>
    /\ ~AzResolvable(groups_in[k]["TargetAvailabilityZoneId"])

\* C16: with a non-empty mapping and a non-empty security-group list, a group
\* whose TargetAvailabilityZoneId is the AZ of no subnet of the mapping does
\* not make the call raise, and no Subnets is written for it: a group that
\* came without OverrideVpcConfig has none, and an OverrideVpcConfig it came
\* with has the Subnets it had, or none if it had none.
C16_UnresolvedAzLeavesSubnetsAlone ==
    \A k \in Positions :
        AzNotFound(k)
        => /\ ~(Raised /\ idx + 1 = k)
           /\ ~HadOverrideVpcConfig(k)
              => "OverrideVpcConfig" \notin DOMAIN instance_groups[k]
           /\ HadOverrideVpcConfig(k)
              => /\ "OverrideVpcConfig" \in DOMAIN instance_groups[k]
                 /\ IF HadSubnets(k)
                    THEN /\ "Subnets" \in DOMAIN instance_groups[k]["OverrideVpcConfig"]
                         /\ instance_groups[k]["OverrideVpcConfig"]["Subnets"]
                                = groups_in[k]["OverrideVpcConfig"]["Subnets"]
                    ELSE "Subnets" \notin DOMAIN instance_groups[k]["OverrideVpcConfig"]

\* the call has returned; both groups asked for an AZ the mapping has no
\* subnet in; the first still has the Subnets it came with, the second still
\* has no OverrideVpcConfig, and neither has the key any more
C16_Witness ==
    /\ Returned /\ Len(groups_in) = 2
    /\ AzNotFound(1) /\ HadSubnets(1)
    /\ instance_groups[1]["OverrideVpcConfig"]["Subnets"] = << <<"subnet-own">> >>
    /\ AzNotFound(2) /\ ~HadOverrideVpcConfig(2)
    /\ "OverrideVpcConfig" \notin DOMAIN instance_groups[2]
    /\ \A k \in 1..2 : "TargetAvailabilityZoneId" \notin DOMAIN instance_groups[k]

-----------------------------------------------------------------------------
(* Further properties of combine_settings, checked under SpecCombine *)

NestedOnce == <<"[", "[", "ObjA", ",", "ObjB", "]", "]">>

NotNested == <<"[", "ObjA", ",", "ObjB", "]">>

NestedTwice == <<"[", "[", "[", "ObjA", "]", "]", "]">>

\* os.environ with every fragment [[a, b]] written [a, b]
Unnested ==
    [k \in DOMAIN environ |-> IF environ[k] = NestedOnce THEN NotNested ELSE environ[k]]

\* the number of elements fragment i adds to the result
Contribution(i) == IF IsJsonArray(i) THEN FlatCount(ArrayItems(i)) ELSE 0

\* the number of elements the fragments before index i add
RECURSIVE Before(_)
Before(i) == IF i <= 1 THEN 0 ELSE Before(i - 1) + Contribution(i - 1)

\* where in the result the q-th element of fragment i starts
ElementStart(i, q) == Before(i) + FlatCount(SubSeq(ArrayItems(i), 1, q - 1))

\* C17: of every fragment that is a JSON array, an element that is itself an
\* array has its own elements appended one by one and as they are, an array
\* among them staying an array, and any other element is appended as it is;
\* and the call returns for a fragment [[a, b]] what it returns for [a, b].
C17_FlattensExactlyOneLevel ==
    (CombineDone /\ NumGroupsValid)
    => /\ combined = combine_settings(Unnested, settings_prefix)
       /\ \A i \in 1..N :
              IsJsonArray(i)
              => \A q \in 1..Len(ArrayItems(i)) :
                     LET e == ArrayItems(i)[q]
                     IN  IF e.type = "list"
                         THEN \A r \in 1..Len(e.items) :
                                  combined.value[ElementStart(i, q) + r] = e.items[r]
                         ELSE combined.value[ElementStart(i, q) + 1] = e

\* the fragments are [[a, b]], [[[a]]] and [a, b], and the call has returned
\* a and b, then the array [a], then a and b again
C17_Witness ==
    /\ CombineDone /\ NumGroupsValid /\ N >= 3
    /\ Present(1) /\ environ[FragmentKey(1)] = NestedOnce
    /\ Present(2) /\ environ[FragmentKey(2)] = NestedTwice
    /\ Present(3) /\ environ[FragmentKey(3)] = NotNested
    /\ combined = [exc |-> "none",
                   value |-> <<PyDict(JsonObjects["ObjA"]), PyDict(JsonObjects["ObjB"]),
                               PyList(<<PyDict(JsonObjects["ObjA"])>>),
                               PyDict(JsonObjects["ObjA"]), PyDict(JsonObjects["ObjB"])>>]

\* os.environ with, of the settings variables, only {prefix}1 .. {prefix}N
OnlyIndexed ==
    [k \in ({NumGroupsKey} \cup {FragmentKey(i) : i \in 1..N}) \cap DOMAIN environ |->
        environ[k]]

\* C18: combine_settings returns what it returns when only {prefix}1 ..
\* {prefix}N are set, N being NUMBER_OF_INSTANCE_GROUPS, or 20 when that is
\* unset; each of these fragments that is an array contributes its elements,
\* and the element of the fragment stored at index 0 is in the result only if
\* one of {prefix}1 .. {prefix}N holds it too.
C18_ReadsExactlyOneToMaxGroups ==
    (CombineDone /\ NumGroupsValid)
    => /\ NumGroupsKey \notin DOMAIN environ => N = 20
       /\ NumGroupsKey \in DOMAIN environ => PyStrOfNat(N) = environ[NumGroupsKey]
       /\ combined = combine_settings(OnlyIndexed, settings_prefix)
       /\ Len(combined.value) = Before(N + 1)
       /\ \A k \in 1..Len(combined.value) :
              combined.value[k] = PyDict(JsonObjects["ObjD"])
              => \E i \in 1..N : Present(i) /\ environ[FragmentKey(i)] = Decoy

\* NUMBER_OF_INSTANCE_GROUPS is 2, the fragments at the indices 0, 1, 2 and 3
\* each hold elements, and the call has returned those of 1 and 2 alone
C18_Witness ==
    /\ CombineDone /\ NumGroupsValid
    /\ NumGroupsKey \in DOMAIN environ /\ environ[NumGroupsKey] = PyStrOfNat(2)
    /\ FragmentKey(0) \in DOMAIN environ /\ environ[FragmentKey(0)] = Decoy
    /\ Present(1) /\ environ[FragmentKey(1)] = <<"[", "ObjA", "]">>
    /\ Present(2) /\ environ[FragmentKey(2)] = NotNested
    /\ Present(3) /\ environ[FragmentKey(3)] = NestedOnce
    /\ combined.value = <<PyDict(JsonObjects["ObjA"]), PyDict(JsonObjects["ObjA"]),
                          PyDict(JsonObjects["ObjB"])>>

-----------------------------------------------------------------------------
(* The subnet query and the frame of enrich_instance_groups, under SpecEnrich *)

\* C19: one call of enrich_instance_groups asks describe_subnets at most once,
\* however many groups carry TargetAvailabilityZoneId, and not at all when
\* none does; and when it asks, no group has been modified yet and none is
\* modified by asking.
C19_OneQueryBeforeAnyGroupIsModified ==
    /\ [](/\ describe_calls <= 1
          /\ (\A k \in Positions : ~HadTargetAz(k)) => describe_calls = 0
          /\ instance_groups # groups_in => pc \notin {"caller", "enrich_lookup"})
    /\ [][describe_calls' # describe_calls
          => /\ describe_calls' = describe_calls + 1
             /\ instance_groups = groups_in
             /\ instance_groups' = instance_groups]_vars

\* the call has returned two groups that both asked for an AZ, both were
\* modified, and describe_subnets was asked once
C19_Witness ==
    /\ Returned /\ Len(groups_in) = 2
    /\ HadTargetAz(1) /\ HadTargetAz(2)
    /\ instance_groups[1] # groups_in[1] /\ instance_groups[2] # groups_in[2]
    /\ describe_calls = 1

RoleConfigured == environ_truthy(environ, <<"SAGEMAKER_IAM_ROLE_NAME">>)

\* C20: a group that came without TargetAvailabilityZoneId keeps, at every
\* point of the call, every key it came with and its value, the value of
\* OverrideVpcConfig but for a SecurityGroupIds it may gain; the only keys it
\* may gain are ExecutionRole, and that only when a role name is configured,
\* and LifeCycleConfig; and it gets no OverrideVpcConfig if it came without.
C20_FrameOfGroupWithoutTargetAz ==
    \A k \in Positions :
        ~HadTargetAz(k)
        => LET before == groups_in[k]
               after == instance_groups[k]
           IN  /\ \A key \in DOMAIN before \ {"OverrideVpcConfig"} :
                      key \in DOMAIN after /\ after[key] = before[key]
               /\ DOMAIN after \ DOMAIN before \subseteq {"ExecutionRole", "LifeCycleConfig"}
               /\ "ExecutionRole" \in DOMAIN after \ DOMAIN before => RoleConfigured
               /\ HadOverrideVpcConfig(k)
                  => /\ "OverrideVpcConfig" \in DOMAIN after
                     /\ \A f \in DOMAIN before["OverrideVpcConfig"] :
                            /\ f \in DOMAIN after["OverrideVpcConfig"]
                            /\ after["OverrideVpcConfig"][f] = before["OverrideVpcConfig"][f]
                     /\ DOMAIN after["OverrideVpcConfig"]
                            \subseteq DOMAIN before["OverrideVpcConfig"] \cup {"SecurityGroupIds"}

\* the first group came without a target AZ, with a role of its own and an
\* OverrideVpcConfig that had Subnets only; role, script and security groups
\* are configured; the call has returned it with its own role and Subnets, a
\* new LifeCycleConfig and the configured SecurityGroupIds
C20_Witness ==
    /\ Returned /\ ~isRig /\ ~HadTargetAz(1)
    /\ RoleConfigured /\ ScriptConfigured /\ ConfiguredSecurityGroups # <<>>
    /\ "ExecutionRole" \in DOMAIN groups_in[1]
    /\ groups_in[1]["ExecutionRole"] = <<"own-role">>
    /\ ~HadLifeCycleConfig(1)
    /\ HadSubnets(1) /\ ~HadSecurityGroupIds(1)
    /\ instance_groups[1]["ExecutionRole"] = <<"own-role">>
    /\ "LifeCycleConfig" \in DOMAIN instance_groups[1]
    /\ instance_groups[1]["OverrideVpcConfig"]
           = [Subnets |-> << <<"subnet-own">> >>, SecurityGroupIds |-> ConfiguredSecurityGroups]

-----------------------------------------------------------------------------
(* Properties of Delete and of the response, checked under SpecHandler *)

SuccessSent == Len(cfn_sent) = 1 /\ cfn_sent[1].Status = "SUCCESS"

Slurm == get_orchestrator_type(environ) = <<"SLURM">>

\* delete_object was called for the key
DeleteAttempted(key) == \E j \in 1..Len(s3_deletes) : s3_deletes[j].Key = key

\* the call of delete_object for the template file failed
TemplateDeleteFailed ==
    /\ s3_deletes # <<>>
    /\ s3_deletes[1].Key = template_key
    /\ s3_deletes[1].Outcome # "deleted"

\* C21 as stated: a Delete ends with a SUCCESS response and no exception, and
\* in SLURM mode any failure of the call that deletes the template file is
\* followed by the call that deletes the provisioning-parameters file.
C21_AnyTemplateFailureStillTriesParameters ==
    request_type = "Delete"
    => /\ SuccessSent
       /\ handler_exc = NoException
       /\ (Slurm /\ TemplateDeleteFailed) => DeleteAttempted(params_key(environ))

\* C21 as amended: a Delete ends with a SUCCESS response and no exception,
\* whatever the S3 client and the delete_object calls do; in SLURM mode a
\* ClientError of the call that deletes the template file, 404 or other, is
\* followed by the call that deletes the provisioning-parameters file, while
\* any other exception of that call ends the cleanup: the parameters file is
\* not tried and the response carries the error message.
C21_DeleteAlwaysSucceeds ==
    request_type = "Delete"
    => /\ SuccessSent
       /\ handler_exc = NoException
       /\ (Slurm /\ TemplateDeleteFailed)
          => IF s3_deletes[1].Outcome \in {"404", "ClientError"}
             THEN /\ Len(s3_deletes) = 2
                  /\ s3_deletes[2].Key = params_key(environ)
             ELSE /\ Len(s3_deletes) = 1
                  /\ cfn_sent[1].Data
                         = [Message |-> <<"Error deleting files: ", s3_deletes[1].Outcome>>]

\* a Delete in SLURM mode: deleting the template failed with a ClientError
\* other than 404, the provisioning-parameters file was deleted after it, and
\* SUCCESS was sent
C21_Witness ==
    /\ request_type = "Delete" /\ Slurm /\ SuccessSent
    /\ Len(s3_deletes) = 2
    /\ s3_deletes[1] = [Key |-> template_key, Outcome |-> "ClientError"]
    /\ s3_deletes[2] = [Key |-> params_key(environ), Outcome |-> "deleted"]

\* the invocation left what on_create leaves when the services answer with x
AsOnCreateLeaves(x) ==
    LET fx == on_create(environ, x)
    IN  /\ cfn_sent = responses_sent(fx)
        /\ handler_exc = [exc |-> fx.exc, raised_in |-> fx.raised_in]
        /\ create_params = fx.create_params
        /\ s3_puts = fx.s3_puts
        /\ describe_answers = fx.describe_answers

\* C23: after every invocation exactly one response has been sent for it; it
\* is SUCCESS exactly when no exception left the handler that was dispatched
\* and FAILED otherwise; for a RequestType other than Create, Update and
\* Delete it is FAILED and no handler has run; and an Update leaves what
\* on_create leaves.
C23_ExactlyOneResponse ==
    invocations > 0
    => /\ Len(cfn_sent) = 1
       /\ cfn_sent[1].Status \in {"SUCCESS", "FAILED"}
       /\ cfn_sent[1].Status = "SUCCESS" <=> handler_exc = NoException
       /\ request_type \notin {"Create", "Update", "Delete"}
          => /\ FailedSent
             /\ handler_exc = [exc |-> "ValueError", raised_in |-> "lambda_handler"]
             /\ s3_puts = <<>> /\ s3_deletes = <<>> /\ describe_answers = <<>>
             /\ ~template_generated /\ create_params = <<>>
       /\ request_type = "Update"
          => /\ s3_deletes = <<>>
             /\ \E x \in CreateAnswers(environ) : AsOnCreateLeaves(x)

\* the second invocation of the process had the RequestType Replace: FAILED
\* was sent for it and no handler touched S3
C23_Witness ==
    /\ invocations = 2 /\ request_type = "Replace"
    /\ cfn_sent = <<[Status |-> "FAILED", Data |-> [Reason |-> <<"ValueError">>]]>>
    /\ s3_puts = <<>> /\ s3_deletes = <<>>

-----------------------------------------------------------------------------
(* What a Create or Update writes to S3, checked under SpecHandler *)

ParametersUploaded ==
    \E j \in 1..Len(s3_puts) : s3_puts[j].Key = s3_file_key(environ)

\* C25 as stated: a Create or Update that ended FAILED has written no object.
C25_FailedRequestWritesNothing ==
    (CreateOrUpdate /\ FailedSent) => s3_puts = <<>>

\* C25 as amended: a Create or Update that ended FAILED has not written the
\* cluster template, and in EKS mode has written nothing; in SLURM mode it has
\* written nothing when the failure precedes the upload of the provisioning
\* parameters (fragment aggregation, enrichment of the instance groups,
\* cluster name and node recovery, generation and upload of the parameters),
\* and it has written provisioning_parameters.json, and only that, when the
\* failure follows it (enrichment of the restricted groups, upload of the
\* template).
C25_FailedRequestWritesNoTemplate ==
    (CreateOrUpdate /\ FailedSent)
    => /\ ~TemplateUploaded
       /\ ~Slurm => s3_puts = <<>>
       /\ Slurm
          => IF \/ handler_exc.raised_in = "upload_cluster_template_to_s3"
                \/ /\ handler_exc.raised_in = "enrich_instance_groups"
                   /\ ~AzTargetingMisconfigured("INSTANCE_GROUP_SETTINGS", "on_create")
             THEN /\ Len(s3_puts) = 1
                  /\ s3_puts[1].Key = s3_file_key(environ)
             ELSE s3_puts = <<>>

\* a Create in SLURM mode ended FAILED on the enrichment of the restricted
\* groups, and provisioning_parameters.json had been uploaded by then
C25_Witness ==
    /\ request_type = "Create" /\ Slurm /\ FailedSent
    /\ handler_exc = [exc |-> "ValueError", raised_in |-> "enrich_instance_groups"]
    /\ Len(s3_puts) = 1
    /\ s3_puts[1].Key = <<"scripts", "/", "provisioning_parameters.json">>
    /\ ~template_generated

HasType(g, t) == "InstanceGroupType" \in DOMAIN g /\ g["InstanceGroupType"] = t

IsCompute(g) == HasType(g, <<"Compute">>)

CountOfType(groups, t) == Cardinality({k \in 1..Len(groups) : HasType(groups[k], t)})

\* every group has one of the three types, exactly one is a Controller and at
\* most one a Login
SlurmGroupsValid(groups) ==
    /\ \A k \in 1..Len(groups) :
           \E t \in { <<"Login">>, <<"Compute">>, <<"Controller">> } : HasType(groups[k], t)
    /\ CountOfType(groups, <<"Controller">>) = 1
    /\ CountOfType(groups, <<"Login">>) <= 1

\* the Compute groups in list order, as worker_groups names them
WorkerGroupsOf(groups) ==
    LET compute == SelectSeq(groups, IsCompute)
    IN  [j \in 1..Len(compute) |->
            [instance_group_name |-> compute[j]["InstanceGroupName"],
             partition_name |-> compute[j]["InstanceType"]]]

\* C26: in SLURM mode a Create or Update generates the template only if every
\* configured instance group has an InstanceGroupType among Login, Compute and
\* Controller, exactly one is a Controller and at most one a Login; otherwise
\* the request ends FAILED with nothing uploaded. Where the provisioning
\* parameters were uploaded, worker_groups names the Compute groups, and only
\* them, in list order.
C26_SlurmGroupTypesValidated ==
    (CreateOrUpdate /\ Slurm)
    => /\ template_generated
          => SlurmGroupsValid(ConfiguredGroups("INSTANCE_GROUP_SETTINGS"))
       /\ ~SlurmGroupsValid(ConfiguredGroups("INSTANCE_GROUP_SETTINGS"))
          => FailedSent /\ s3_puts = <<>>
       /\ ParametersUploaded
          => s3_puts[1].Body.json["worker_groups"]
                 = WorkerGroupsOf(ConfiguredGroups("INSTANCE_GROUP_SETTINGS"))

\* a Create in SLURM mode with the groups W2, C, W and L has uploaded both
\* files, and worker_groups names W2 and then W
C26_Witness ==
    /\ request_type = "Create" /\ Slurm /\ SuccessSent
    /\ Len(s3_puts) = 2
    /\ s3_puts[1].Body.json["worker_groups"]
           = << [instance_group_name |-> <<"W2">>, partition_name |-> <<"ml.g5.xlarge">>],
                [instance_group_name |-> <<"W">>, partition_name |-> <<"ml.p5.48xlarge">>] >>
    /\ s3_puts[1].Body.json["login_group"] = <<"L">>

KeysPut(puts) == { puts[j].Key : j \in 1..Len(puts) }

KeysDeleted == { s3_deletes[j].Key : j \in 1..Len(s3_deletes) }

\* on_delete made every call of delete_object it makes in this mode
DeleteRanThrough == Len(s3_deletes) = IF Slurm THEN 2 ELSE 1

\* C27: under one configuration, the keys a Delete that runs through calls
\* delete_object with are the keys a successful Create writes, whatever the
\* services answer the Create with: the template key, and in SLURM mode the
\* key of provisioning_parameters.json under the directory of ON_CREATE_PATH;
\* and a Create that fails writes no key the Delete does not try.
C27_DeleteTriesWhatCreateWrote ==
    (request_type = "Delete" /\ DeleteRanThrough)
    => /\ template_key \in KeysDeleted
       /\ Slurm => s3_file_key(environ) \in KeysDeleted
       /\ \A x \in CreateAnswers(environ) :
              LET fx == on_create(environ, x)
              IN  /\ KeysPut(fx.s3_puts) \subseteq KeysDeleted
                  /\ fx.exc = "none" => KeysPut(fx.s3_puts) = KeysDeleted

\* the second invocation is a Delete in SLURM mode that tried the template
\* and scripts/provisioning_parameters.json, the two keys a Create under this
\* configuration writes
C27_Witness ==
    /\ invocations = 2 /\ request_type = "Delete" /\ Slurm
    /\ KeysDeleted = { template_key, <<"scripts", "/", "provisioning_parameters.json">> }
    /\ \E x \in CreateAnswers(environ) :
           /\ on_create(environ, x).exc = "none"
           /\ KeysPut(on_create(environ, x).s3_puts) = KeysDeleted

-----------------------------------------------------------------------------
(* enrich_instance_groups applied to its own output, under SpecEnrich *)

\* a second call on the list the first one returned, under the same
\* configuration, describe_subnets answering with lookup if it is asked
SecondApplication(lookup) ==
    enrich_instance_groups(environ, instance_groups, isRig, lookup)

\* C30: when enrich_instance_groups has returned, a second call on the
\* returned list under the same configuration raises nothing, returns a list
\* equal to it and asks describe_subnets nothing, whatever describe_subnets
\* would answer.
C30_EnrichmentIdempotent ==
    Returned
    => \A lookup \in LookupAnswers(environ) :
           /\ SecondApplication(lookup).exc = "none"
           /\ SecondApplication(lookup).groups = instance_groups
           /\ SecondApplication(lookup).describe_answers = <<>>

\* the call has returned two groups it changed, the first resolved to a
\* subnet, and a second call on them changes nothing
C30_Witness ==
    /\ Returned /\ Len(groups_in) = 2
    /\ HadTargetAz(1) /\ AzResolvable(groups_in[1]["TargetAvailabilityZoneId"])
    /\ instance_groups[1] # groups_in[1] /\ instance_groups[2] # groups_in[2]
    /\ "Subnets" \in DOMAIN instance_groups[1]["OverrideVpcConfig"]
    /\ SecondApplication(NoLookup).groups = instance_groups


-----------------------------------------------------------------------------
(* The observability-grafana-creator: on_create and its polling loop *)

MAX_RETRIES == 20

\* the statuses describe_workspace reports; CREATING stands for every status
\* the loop has no branch for
WorkspaceStatuses == {"CREATING", "ACTIVE", "FAILED", "DELETING"}

\* what one describe_workspace call does: it reports a status or it raises
DescribeWorkspaceOutcomes == WorkspaceStatuses \cup {"raises"}

GrafanaKeys ==
    { <<"WORKSPACE_NAME">>, <<"WORKSPACE_ROLE_ARN">>, <<"PARTITION">>, <<"REGION">>,
      <<"AWS_ACCOUNT_ID">> }

\* the deployments: every variable set, or one of them missing
GrafanaEnvirons ==
    { [k \in GrafanaKeys \ missing |-> <<"value">>] :
        missing \in { {} } \cup { {k} : k \in GrafanaKeys } }

\* the limit is tested with > in place of >=
RetriesExhaustedLate(r) == r > MAX_RETRIES

\* if retries >= MAX_RETRIES
RetriesExhausted(r) == r >= MAX_RETRIES

\* the try block of one iteration for a status other than ACTIVE: the
\* exception it leaves with and the value of retries it leaves.  A raise
\* with no exception being handled raises RuntimeError
TryBlock(reported, r) ==
    IF reported = "raises" THEN [exc |-> "ClientError", retries |-> r]
    ELSE IF reported \in {"FAILED", "DELETING"}
    THEN [exc |-> "RuntimeError", retries |-> r]
    ELSE IF RetriesExhausted(r + 1) THEN [exc |-> "RuntimeError", retries |-> r + 1]
    ELSE [exc |-> "none", retries |-> r + 1]

\* the except block of the iteration: the exception it re-raises ("none"
\* when the loop goes on) and the value of retries it leaves
ExceptBlock(exc, r) ==
    IF RetriesExhausted(r + 1) THEN [exc |-> exc, retries |-> r + 1]
    ELSE [exc |-> "none", retries |-> r + 1]

\* on_create up to the loop: the two variables are read, the client is made
\* and create_workspace is called
grafana_create_workspace ==
    /\ pc = "on_create"
    /\ \E created \in BOOLEAN :
          LET exc == IF <<"WORKSPACE_NAME">> \notin DOMAIN environ
                        \/ <<"WORKSPACE_ROLE_ARN">> \notin DOMAIN environ
                     THEN "KeyError"
                     ELSE IF created THEN "none" ELSE "ClientError"
          IN  /\ pc' = IF exc = "none" THEN "polling" ELSE "on_create_raised"
              /\ grafana_exc' = exc
    /\ retries' = 0
    /\ UNCHANGED <<environ, call_site, combine_vars, enrich_vars, handler_vars,
                   sagemaker_calls,
                   delete_cluster_vars, describe_workspace_calls, waits, status,
                   failed_status_at>>

\* one iteration of the while loop
grafana_poll ==
    /\ pc = "polling"
    /\ \E reported \in DescribeWorkspaceOutcomes :
          LET tried == TryBlock(reported, retries)
              caught == IF tried.exc = "none" THEN tried
                        ELSE ExceptBlock(tried.exc, tried.retries)
          IN  /\ describe_workspace_calls' = describe_workspace_calls + 1
              /\ status' = reported
              /\ failed_status_at' =
                     IF reported \in {"FAILED", "DELETING"} /\ failed_status_at = 0
                     THEN describe_workspace_calls + 1 ELSE failed_status_at
              /\ IF reported = "ACTIVE"
                 THEN /\ pc' = "active"
                      /\ UNCHANGED <<retries, waits, grafana_exc>>
                 ELSE /\ retries' = caught.retries
                      /\ grafana_exc' = caught.exc
                      /\ pc' = IF caught.exc = "none" THEN "polling"
                               ELSE "on_create_raised"
                      /\ waits' = IF caught.exc = "none" THEN waits + 1 ELSE waits
    /\ UNCHANGED <<environ, call_site, combine_vars, enrich_vars, handler_vars,
                   sagemaker_calls,
                   delete_cluster_vars>>

\* after the loop: the Arn is built from three more variables and
\* response_data is returned
grafana_return ==
    /\ pc = "active"
    /\ LET exc == IF {<<"PARTITION">>, <<"REGION">>, <<"AWS_ACCOUNT_ID">>}
                         \subseteq DOMAIN environ
                  THEN "none" ELSE "KeyError"
       IN  /\ pc' = IF exc = "none" THEN "on_create_returned" ELSE "on_create_raised"
           /\ grafana_exc' = exc
    /\ UNCHANGED <<environ, call_site, combine_vars, enrich_vars, handler_vars,
                   sagemaker_calls,
                   delete_cluster_vars, retries, describe_workspace_calls, waits,
                   status, failed_status_at>>

InitGrafana ==
    /\ environ \in GrafanaEnvirons
    /\ pc = "on_create"
    /\ call_site = "none"
    /\ CombineIdle
    /\ EnrichIdle
    /\ HandlerIdle
    /\ OtherLambdasIdle

NextGrafana ==
    \/ grafana_create_workspace
    \/ grafana_poll
    \/ grafana_return

\* on_create runs on: a call returns or raises, and a sleep ends
SpecGrafana == InitGrafana /\ [][NextGrafana]_vars /\ WF_vars(NextGrafana)

-----------------------------------------------------------------------------
(* Properties of the polling loop, checked under SpecGrafana *)

GrafanaDone == pc \in {"on_create_returned", "on_create_raised"}

\* C28: the polling loop of on_create always terminates: it makes at most
\* MAX_RETRIES describe_workspace calls, on_create returns only if the latest
\* call reported ACTIVE, and otherwise it raises, whatever the calls report
C28_PollingTerminates ==
    /\ [](describe_workspace_calls <= MAX_RETRIES)
    /\ [](pc = "on_create_returned" => status = "ACTIVE" /\ grafana_exc = "none")
    /\ [](GrafanaDone /\ status # "ACTIVE" => pc = "on_create_raised" /\ grafana_exc # "none")
    /\ <>GrafanaDone

\* the loop has used all its calls: the last of them may still report ACTIVE
C28_Witness ==
    /\ GrafanaDone
    /\ describe_workspace_calls = MAX_RETRIES
    /\ status \in {"CREATING", "raises"}
    /\ pc = "on_create_raised"

\* C29: once describe_workspace has reported FAILED or DELETING, on_create
\* makes no further describe_workspace call and does not wait
C29_FailedStatusFailsAtOnce ==
    failed_status_at # 0 =>
        /\ describe_workspace_calls = failed_status_at
        /\ pc = "on_create_raised"
        /\ waits = failed_status_at - 1

\* a workspace reported FAILED and polled again, to the point of returning
C29_Witness ==
    /\ failed_status_at # 0
    /\ describe_workspace_calls > failed_status_at
    /\ pc = "on_create_returned"


-----------------------------------------------------------------------------
(* delete_hyperpod_cluster: describe, delete, then poll until not found *)

\* describe_cluster calls of the polling loop the model follows while the
\* cluster is still known
MaxPolls == 3

\* the ClusterStatus a describe_cluster call that succeeds reports
ClusterStatuses == {"InService", "Deleting", "Failed"}

\* the exceptions of a call: the ClientError with the code ResourceNotFound,
\* a ClientError with another code, an exception that is no ClientError
ClusterErrors == {"ResourceNotFound", "ThrottlingException", "EndpointConnectionError"}

\* what describe_cluster does: it raises, or reports a cluster SageMaker knows
DescribeClusterOutcomes ==
    IF <<"HYPER_POD_CLUSTER_NAME">> \notin DOMAIN environ THEN {"ParamValidationError"}
    ELSE IF cluster_gone THEN ClusterErrors
    ELSE ClusterStatuses \cup (ClusterErrors \ {"ResourceNotFound"})

\* what delete_cluster does
DeleteClusterOutcomes ==
    IF cluster_gone THEN ClusterErrors
    ELSE {"ok"} \cup (ClusterErrors \ {"ResourceNotFound"})

CallRaised(outcome) == outcome \notin ClusterStatuses \cup {"ok"}

\* every ClientError ends the function with the message
outer_except_swallows_client_errors(outcome) ==
    IF outcome \in {"ResourceNotFound", "ThrottlingException"}
    THEN [pc |-> "delete_returned", result |-> "not found, nothing to delete"]
    ELSE [pc |-> "delete_raised", result |-> outcome]

\* the except blocks of the outer try
outer_except(outcome) ==
    IF outcome = "ResourceNotFound"
    THEN [pc |-> "delete_returned", result |-> "not found, nothing to delete"]
    ELSE [pc |-> "delete_raised", result |-> outcome]

\* the except blocks of the try in the loop; what they raise reaches the
\* except blocks of the outer try
inner_except(outcome) ==
    IF outcome = "ResourceNotFound"
    THEN [pc |-> "delete_returned", result |-> "successfully deleted"]
    ELSE outer_except(outcome)

Called(call, outcome) ==
    cluster_calls' = Append(cluster_calls, [call |-> call, outcome |-> outcome])

\* sagemaker = boto3.client('sagemaker'), outside every try block
delete_make_client ==
    /\ pc = "delete_hyperpod_cluster"
    /\ \E made \in BOOLEAN :
          /\ pc' = IF made THEN "describe" ELSE "delete_raised"
          /\ delete_result' = IF made THEN "none" ELSE "BotoCoreError"
    /\ UNCHANGED <<environ, call_site, combine_vars, enrich_vars, handler_vars,
                   sagemaker_calls,
                   grafana_vars, cluster_gone, cluster_calls>>

\* the first describe_cluster call
delete_describe_cluster ==
    /\ pc = "describe"
    /\ \E outcome \in DescribeClusterOutcomes :
          /\ Called("describe_cluster", outcome)
          /\ pc' = IF CallRaised(outcome) THEN outer_except(outcome).pc ELSE "delete"
          /\ delete_result' = IF CallRaised(outcome) THEN outer_except(outcome).result
                              ELSE "none"
    /\ UNCHANGED <<environ, call_site, combine_vars, enrich_vars, handler_vars,
                   sagemaker_calls,
                   grafana_vars, cluster_gone>>

\* the delete_cluster call
delete_delete_cluster ==
    /\ pc = "delete"
    /\ \E outcome \in DeleteClusterOutcomes :
          /\ Called("delete_cluster", outcome)
          /\ pc' = IF CallRaised(outcome) THEN outer_except(outcome).pc ELSE "poll"
          /\ delete_result' = IF CallRaised(outcome) THEN outer_except(outcome).result
                              ELSE "none"
    /\ UNCHANGED <<environ, call_site, combine_vars, enrich_vars, handler_vars,
                   sagemaker_calls,
                   grafana_vars, cluster_gone>>

Polls == Len(SelectSeq(cluster_calls, LAMBDA c : c.call = "describe_cluster")) - 1

\* one iteration of the while loop: describe_cluster, then time.sleep or an
\* except block
delete_poll ==
    /\ pc = "poll"
    /\ Polls < MaxPolls \/ cluster_gone
    /\ \E outcome \in DescribeClusterOutcomes :
          /\ Called("describe_cluster", outcome)
          /\ pc' = IF CallRaised(outcome) THEN inner_except(outcome).pc ELSE "poll"
          /\ delete_result' = IF CallRaised(outcome) THEN inner_except(outcome).result
                              ELSE "none"
    /\ UNCHANGED <<environ, call_site, combine_vars, enrich_vars, handler_vars,
                   sagemaker_calls,
                   grafana_vars, cluster_gone>>

\* SageMaker finishes deleting the cluster, or something else deletes it
cluster_disappears ==
    /\ ~cluster_gone
    /\ cluster_gone' = TRUE
    /\ UNCHANGED <<environ, pc, call_site, combine_vars, enrich_vars, handler_vars,
                   sagemaker_calls,
                   grafana_vars, cluster_calls, delete_result>>

DeleteClusterEnvirons ==
    { (<<"HYPER_POD_CLUSTER_NAME">> :> <<"cluster">>), <<>> }

InitDeleteCluster ==
    /\ environ \in DeleteClusterEnvirons
    /\ pc = "delete_hyperpod_cluster"
    /\ call_site = "none"
    /\ CombineIdle
    /\ EnrichIdle
    /\ HandlerIdle
    /\ GrafanaIdle
    /\ sagemaker_calls = <<>>
    /\ cluster_gone \in BOOLEAN
    /\ cluster_calls = <<>>
    /\ delete_result = "none"

\* the steps of the function
DeleteClusterStep ==
    \/ delete_make_client
    \/ delete_describe_cluster
    \/ delete_delete_cluster
    \/ delete_poll

NextDeleteCluster ==
    \/ DeleteClusterStep
    \/ cluster_disappears

\* the function runs on: a call returns or raises, and a sleep ends.  Nothing
\* is assumed of SageMaker
SpecDeleteCluster ==
    InitDeleteCluster /\ [][NextDeleteCluster]_vars /\ WF_vars(DeleteClusterStep)

-----------------------------------------------------------------------------
(* Properties of delete_hyperpod_cluster, checked under SpecDeleteCluster *)

DeleteClusterDone == pc \in {"delete_returned", "delete_raised"}

CallFailedWith(calls, code) ==
    \E k \in 1..Len(cluster_calls) :
        cluster_calls[k].call \in calls /\ cluster_calls[k].outcome = code

\* delete_cluster was called at most once, as the second call, after a
\* describe_cluster call that succeeded
DeleteCalledOnceAfterDescribe ==
    \A k \in 1..Len(cluster_calls) :
        cluster_calls[k].call = "delete_cluster" =>
            k = 2 /\ ~CallRaised(cluster_calls[1].outcome)

\* a call that raised is the last call, and an error other than
\* ResourceNotFound is what the function raised
OtherErrorsReRaised ==
    \A k \in 1..Len(cluster_calls) :
        CallRaised(cluster_calls[k].outcome) =>
            /\ k = Len(cluster_calls)
            /\ DeleteClusterDone
            /\ cluster_calls[k].outcome # "ResourceNotFound" =>
                   pc = "delete_raised" /\ delete_result = cluster_calls[k].outcome

\* C22 as stated: delete_hyperpod_cluster returns a message only after a
\* describe_cluster call has failed with ResourceNotFound
C22_ReturnsOnlyAfterDescribeNotFound ==
    pc = "delete_returned" => CallFailedWith({"describe_cluster"}, "ResourceNotFound")

\* C22: delete_hyperpod_cluster returns a message only after describe_cluster
\* or delete_cluster has failed with ResourceNotFound, and the message
\* 'successfully deleted' only after a describe_cluster call of the polling
\* loop has; it calls delete_cluster at most once and only after a
\* describe_cluster call succeeded; it re-raises any other error; and it
\* terminates provided the cluster is eventually reported as not found
C22_WaitsUntilDeleted ==
    /\ [](pc = "delete_returned" =>
              CallFailedWith({"describe_cluster", "delete_cluster"}, "ResourceNotFound"))
    /\ [](delete_result = "successfully deleted" =>
              /\ Len(cluster_calls) > 2
              /\ cluster_calls[Len(cluster_calls)] =
                     [call |-> "describe_cluster", outcome |-> "ResourceNotFound"])
    /\ []DeleteCalledOnceAfterDescribe
    /\ []OtherErrorsReRaised
    /\ (<>cluster_gone) => <>DeleteClusterDone

\* the cluster was polled MaxPolls times while it existed, then reported not found
C22_Witness ==
    /\ delete_result = "successfully deleted"
    /\ Polls > MaxPolls
    /\ cluster_calls[2] = [call |-> "delete_cluster", outcome |-> "ok"]


-----------------------------------------------------------------------------
(* The s3-content hyperpod-cluster-creator: lambda_handler *)

ContentDefaultNumGroups == 5

\* os.environ.get(key)
PyNone == <<"(None)">>

environ_get_or_none(env, key) == IF key \in DOMAIN env THEN env[key] ELSE PyNone

\* int(os.environ.get('NUMBER_OF_INSTANCE_GROUPS', 5))
content_num_groups(env) ==
    IF NumGroupsKey \in DOMAIN env THEN PyInt(env[NumGroupsKey])
    ELSE [exc |-> "none", value |-> ContentDefaultNumGroups]

\* the loop over INSTANCE_GROUP_SETTINGS1 .. INSTANCE_GROUP_SETTINGS{num_groups}
content_combined_settings(env) ==
    LET n == content_num_groups(env)
    IN  IF n.exc # "none" THEN [exc |-> n.exc, value |-> <<>>]
        ELSE combine_settings_loop(env, "INSTANCE_GROUP_SETTINGS", 1, n.value, <<>>)

\* v.split(',') if ',' in os.environ.get(key, '') else [os.environ.get(key)]
content_comma_list(env, key) ==
    IF key \in DOMAIN env /\ \E k \in 1..Len(env[key]) : env[key][k] = ","
    THEN PySplit(env[key], ",")
    ELSE <<environ_get_or_none(env, key)>>

\* the lifecycle script configuration of one group
content_with_life_cycle_config(env, g) ==
    IF /\ environ_truthy(env, <<"S3_BUCKET_NAME">>)
       /\ environ_truthy(env, <<"ON_CREATE_PATH">>)
       /\ "LifeCycleConfig" \notin DOMAIN g
    THEN SetItem(g, "LifeCycleConfig",
                 [SourceS3Uri |-> <<"s3://">> \o env[<<"S3_BUCKET_NAME">>],
                  OnCreate |-> env[<<"ON_CREATE_PATH">>]])
    ELSE g

\* an item that is no dict is tested with in or assigned to: TypeError
content_item_raises(env, item) ==
    /\ item.type # "dict"
    /\ \/ environ_truthy(env, <<"SAGEMAKER_IAM_ROLE_NAME">>)
       \/ environ_truthy(env, <<"S3_BUCKET_NAME">>)
          /\ environ_truthy(env, <<"ON_CREATE_PATH">>)

\* the loop over combined_settings
content_instance_groups(env, items) ==
    IF \E k \in 1..Len(items) : content_item_raises(env, items[k])
    THEN [exc |-> "TypeError", value |-> <<>>]
    ELSE [exc |-> "none",
          value |-> [k \in 1..Len(items) |->
                        IF items[k].type # "dict" THEN items[k]
                        ELSE PyDict(content_with_life_cycle_config(
                                        env, WithExecutionRole(env, items[k].d)))]]

\* create_params as create_cluster gets it
content_create_params(env, groups) ==
    LET params ==
            [ClusterName |-> environ_get_or_none(env, <<"HYPER_POD_CLUSTER_NAME">>),
             NodeRecovery |-> environ_get_or_none(env, <<"NODE_RECOVERY">>),
             VpcConfig |->
                 [SecurityGroupIds |-> content_comma_list(env, <<"SECURITY_GROUP_IDS">>),
                  Subnets |-> content_comma_list(env, <<"PRIVATE_SUBNET_IDS">>)],
             Orchestrator |->
                 [Eks |-> [ClusterArn |->
                               environ_get_or_none(env, <<"EKS_CLUSTER_ARN">>)]]]
    IN  IF groups # <<>> THEN SetItem(params, "InstanceGroups", groups) ELSE params

NoContentEffects ==
    [exc |-> "none", create_params |-> <<>>, calls |-> <<>>, sent |-> <<>>]

ContentSend(fx, sent_status, data) ==
    [fx EXCEPT !.sent = Append(fx.sent, [Status |-> sent_status, Data |-> data])]

\* the except block of the outer try: FAILED is sent with str(e)
content_outer_except(fx, exc) ==
    ContentSend([fx EXCEPT !.exc = exc], "FAILED", [Error |-> <<exc>>])

\* the branch of Create and Update; x says what boto3 and SageMaker answer
content_create(env, x) ==
    LET combined_settings == content_combined_settings(env)
        groups == content_instance_groups(env, combined_settings.value)
        called == [NoContentEffects EXCEPT
                       !.create_params = content_create_params(env, groups.value),
                       !.calls = <<[call |-> "create_cluster", outcome |-> x.create_cluster]>>]
    IN  IF ~x.client THEN content_outer_except(NoContentEffects, "BotoCoreError")
        ELSE IF combined_settings.exc # "none"
        THEN content_outer_except(NoContentEffects, combined_settings.exc)
        ELSE IF groups.exc # "none"
        THEN content_outer_except(NoContentEffects, groups.exc)
        ELSE IF x.create_cluster # "ok" THEN content_outer_except(called, x.create_cluster)
        ELSE ContentSend(called, "SUCCESS",
                         [Message |-> <<"Cluster creation is triggered">>])

\* the branch of Delete: delete_cluster is called when describe_cluster
\* returned; ResourceNotFound from either is passed over, every other
\* exception goes to the except block of the inner try
content_delete(env, x) ==
    LET described == <<[call |-> "describe_cluster", outcome |-> x.describe_cluster]>>
        deleted == described \o <<[call |-> "delete_cluster", outcome |-> x.delete_cluster]>>
        calls == IF x.describe_cluster = "ok" THEN deleted ELSE described
        outcome == calls[Len(calls)].outcome
        fx == [NoContentEffects EXCEPT !.calls = calls]
    IN  IF ~x.client
        THEN ContentSend([NoContentEffects EXCEPT !.exc = "BotoCoreError"], "FAILED",
                         [Error |-> <<"BotoCoreError">>])
        ELSE IF outcome \in {"ok", "ResourceNotFound"}
        THEN ContentSend(fx, "SUCCESS",
                         [Message |-> <<"Cluster deleted successfully or not found">>])
        ELSE ContentSend([fx EXCEPT !.exc = outcome], "FAILED", [Error |-> <<outcome>>])

\* what create_cluster does
CreateClusterOutcomes == {"ok", "ResourceInUse", "ParamValidationError"}

\* what describe_cluster(clusterName=...) and delete_cluster(clusterName=...)
\* do; botocore refusing the keyword clusterName is ParamValidationError
ContentCallOutcomes == {"ok", "ResourceNotFound", "ThrottlingException", "ParamValidationError"}

ContentCreateAnswers ==
    { [client |-> c, create_cluster |-> o] : c \in BOOLEAN, o \in CreateClusterOutcomes }

ContentDeleteAnswers ==
    { [client |-> c, describe_cluster |-> d, delete_cluster |-> o] :
        c \in BOOLEAN, d \in ContentCallOutcomes, o \in ContentCallOutcomes }

\* one invocation of lambda_handler that ends with the effects fx
ContentInvoked(fx) ==
    /\ invocations' = invocations + 1
    /\ cfn_sent' = fx.sent
    /\ handler_exc' = [exc |-> fx.exc, raised_in |-> IF fx.exc = "none" THEN "none"
                                                     ELSE "lambda_handler"]
    /\ create_params' = fx.create_params
    /\ sagemaker_calls' = fx.calls
    /\ UNCHANGED <<environ, pc, call_site, combine_vars, enrich_vars, grafana_vars,
                   delete_cluster_vars, template_generated, s3_puts, s3_deletes,
                   describe_answers>>

\* if event['RequestType'] in ['Create', 'Update']
content_handle_create_or_update ==
    /\ invocations < MaxInvocations
    /\ request_type' \in {"Create", "Update"}
    /\ \E x \in ContentCreateAnswers : ContentInvoked(content_create(environ, x))

\* elif event['RequestType'] == 'Delete'
content_handle_delete ==
    /\ invocations < MaxInvocations
    /\ request_type' = "Delete"
    /\ \E x \in ContentDeleteAnswers : ContentInvoked(content_delete(environ, x))

\* neither condition holds: the try block ends and lambda_handler returns
content_handle_other ==
    /\ invocations < MaxInvocations
    /\ request_type' \in UnsupportedRequestTypes
    /\ ContentInvoked(NoContentEffects)

\* the event has no RequestType: event['RequestType'] raises KeyError
content_handle_no_request_type ==
    /\ invocations < MaxInvocations
    /\ request_type' = "(missing)"
    /\ ContentInvoked(content_outer_except(NoContentEffects, "KeyError"))

\* fragments with an item that is no dict
NonDictFragments ==
    { << <<"[", "7", "]">>, Unset, Unset >>,
      << <<"[", "ObjA", "]">>, <<"[", "7", "]">>, Unset >> }

ContentEnvirons ==
    { EnvOf(departure @@ WithFragments(f) @@ BaseEnviron) :
        departure \in Departures
                      \cup { (<<"SAGEMAKER_IAM_ROLE_NAME">> :> Unset),
                             (<<"SECURITY_GROUP_IDS">> :> <<"sg-1", ",", "sg-2">>) },
        f \in DepartureFragments \cup NonDictFragments }

InitContent ==
    /\ environ \in ContentEnvirons
    /\ pc = "handler"
    /\ call_site = "none"
    /\ CombineIdle
    /\ EnrichIdle
    /\ HandlerIdle
    /\ OtherLambdasIdle

NextContent ==
    \/ content_handle_create_or_update
    \/ content_handle_delete
    \/ content_handle_other
    \/ content_handle_no_request_type

SpecContent == InitContent /\ [][NextContent]_vars

-----------------------------------------------------------------------------
(* Properties of the s3-content lambda_handler, checked under SpecContent *)

\* C24: after every invocation exactly one CloudFormation response has been
\* sent for it, whatever the RequestType of the event was
C24_OneResponseForEveryRequestType ==
    request_type # "none" => Len(cfn_sent) = 1

\* a request of a type the handler has no branch for was served: nothing was
\* called and nothing was sent
C24_Witness ==
    /\ request_type \in UnsupportedRequestTypes
    /\ invocations > 0
    /\ cfn_sent = <<>>
    /\ sagemaker_calls = <<>>

\* for the three request types of the protocol, and for an event without
\* RequestType, one response is sent
C24_OneResponseForProtocolRequests ==
    request_type \in {"Create", "Update", "Delete", "(missing)"}
    => /\ Len(cfn_sent) = 1
       /\ cfn_sent[1].Status = "SUCCESS" <=> handler_exc = NoException

====
